---- MODULE Spec2Model ----
(***************************************************************************)
(* Model of tensorboard/plugins/graph/tf_graph_common/hierarchy.ts: the    *)
(* three chained build phases (addNodes, groupSeries, addEdges) and the    *)
(* queries on a built Hierarchy (getBridgegraph, getTopologicalOrdering,   *)
(* joinAndAggregateStats, getIncompatibleOps, getPredecessors,             *)
(* getSuccessors).                                                         *)
(*                                                                         *)
(* A string is a sequence of characters, so that splitting a name on '/',  *)
(* matching the numeric suffix and formatting a series name are computed.  *)
(* A JS object used as an insertion-ordered dictionary is a sequence of    *)
(* [key, value] records; a histogram is a function on the keys present.    *)
(* A nullable reference is a sequence of length at most one.               *)
(***************************************************************************)
EXTENDS Integers, Sequences, FiniteSets, TLC

VARIABLES
    graph,            \* the SlimGraph handed to build: [nodes, edges]
    params,           \* HierarchyParams, seriesMap included (groupSeries writes it)
    pc,               \* position in the promise chain of build
    phases,           \* the build tasks that have run to completion, in order
    index,            \* Hierarchy.index: node name -> node
    libraryFunctions, \* Hierarchy.libraryFunctions
    orderings,        \* Hierarchy.orderings
    devices,          \* Hierarchy.devices
    xlaClusters,      \* Hierarchy.xlaClusters
    seriesNames,      \* build's seriesNames: member name -> series name
    delivered,        \* whether the build promise has resolved with h
    queries,          \* number of queries made on the delivered hierarchy
    lastCall,         \* the last query and its outcome
    traversal,        \* the locals of getTopologicalOrdering while its loop runs
    created,          \* the bridgegraphs and orderings the queries created, in order
    asked,            \* the name the last query was given
    returned          \* what the last call returned, when it was getIncompatibleOps

vars == <<graph, params, pc, phases, index, libraryFunctions, orderings,
          devices, xlaClusters, seriesNames, delivered, queries, lastCall, traversal,
          created, asked, returned>>

-----------------------------------------------------------------------------
(* Strings *)

NAMESPACE_DELIM == "/"
ROOT_NAME == <<"__root__">>
FUNCTION_LIBRARY_NODE_PREFIX == <<"__function_library__">>
NoName == <<>>
Undefined == "undefined"

Digits == {"0", "1", "2", "3", "4", "5", "6", "7", "8", "9"}

DigitVal(c) ==
    CASE c = "0" -> 0 [] c = "1" -> 1 [] c = "2" -> 2 [] c = "3" -> 3
      [] c = "4" -> 4 [] c = "5" -> 5 [] c = "6" -> 6 [] c = "7" -> 7
      [] c = "8" -> 8 [] c = "9" -> 9

DigitChar(d) ==
    CASE d = 0 -> "0" [] d = 1 -> "1" [] d = 2 -> "2" [] d = 3 -> "3"
      [] d = 4 -> "4" [] d = 5 -> "5" [] d = 6 -> "6" [] d = 7 -> "7"
      [] d = 8 -> "8" [] d = 9 -> "9"

\* +id : the decimal value of a run of digits
RECURSIVE ToNumber(_)
ToNumber(ds) ==
    IF ds = <<>> THEN 0
    ELSE 10 * ToNumber(SubSeq(ds, 1, Len(ds) - 1)) + DigitVal(ds[Len(ds)])

\* '' + n : the decimal digits of a number
RECURSIVE NumberToString(_)
NumberToString(n) ==
    IF n < 10 THEN <<DigitChar(n)>>
    ELSE NumberToString(n \div 10) \o <<DigitChar(n % 10)>>

\* the ascending list of a finite set of integers
RECURSIVE SortedSeq(_)
SortedSeq(S) ==
    IF S = {} THEN <<>>
    ELSE LET m == CHOOSE x \in S : \A y \in S : x <= y
         IN  <<m>> \o SortedSeq(S \ {m})

Range(s) == {s[i] : i \in 1..Len(s)}

DelimPositions(name) == SortedSeq({i \in 1..Len(name) : name[i] = NAMESPACE_DELIM})

\* name.split('/') : the last element, and the others joined by '/'
LeafOf(name) ==
    LET ps == DelimPositions(name)
    IN  IF ps = <<>> THEN name ELSE SubSeq(name, ps[Len(ps)] + 1, Len(name))

ParentOf(name) ==
    LET ps == DelimPositions(name)
    IN  IF ps = <<>> THEN <<>> ELSE SubSeq(name, 1, ps[Len(ps)] - 1)

\* graph.getHierarchicalPath(name): every proper '/'-prefix, then the name
getHierarchicalPath(name) ==
    LET ps == DelimPositions(name)
    IN  [k \in 1..Len(ps) |-> SubSeq(name, 1, ps[k] - 1)] \o <<name>>

\* graph.getSeriesNodeName(prefix, suffix, parent): no ids given
getSeriesNodeName(prefix, suffix, parent) ==
    LET pattern == prefix \o <<"#">> \o suffix
    IN  IF parent # <<>> THEN parent \o <<NAMESPACE_DELIM>> \o pattern ELSE pattern

\* graph.getSeriesNodeName(prefix, suffix, parent, startId, endId)
getSeriesNodeNameIds(prefix, suffix, parent, startId, endId) ==
    LET pattern == prefix \o <<"[">> \o NumberToString(startId) \o <<"-">>
                     \o NumberToString(endId) \o <<"]">> \o suffix
    IN  IF parent # <<>> THEN parent \o <<NAMESPACE_DELIM>> \o pattern ELSE pattern

\* name.indexOf(prefix) === 0
StartsWith(name, prefix) ==
    Len(name) >= Len(prefix) /\ SubSeq(name, 1, Len(prefix)) = prefix

-----------------------------------------------------------------------------
(* Dictionaries and histograms *)

DictHas(d, k) == \E i \in 1..Len(d) : d[i].key = k

DictGet(d, k) == d[CHOOSE i \in 1..Len(d) : d[i].key = k].value

\* d[k] = v : an existing key keeps its place, a new one goes last
DictPut(d, k, v) ==
    IF DictHas(d, k)
    THEN [i \in 1..Len(d) |-> IF d[i].key = k THEN [key |-> k, value |-> v] ELSE d[i]]
    ELSE Append(d, [key |-> k, value |-> v])

\* hist[k] = (hist[k] || 0) + 1
HistInc(hist, k) ==
    IF k \in DOMAIN hist THEN [hist EXCEPT ![k] = @ + 1] ELSE hist @@ (k :> 1)

HistGet(hist, k) == IF k \in DOMAIN hist THEN hist[k] ELSE 0

EmptyMap == [k \in {} |-> 0]

\* map[k] = v on a function
MapPut(map, k, v) == [x \in DOMAIN map \cup {k} |-> IF x = k THEN v ELSE map[x]]

Max(a, b) == IF a >= b THEN a ELSE b

-----------------------------------------------------------------------------
(* graphlib graphs: nodes in insertion order, edges keyed by (v, w) *)

createGraph == [nodes |-> <<>>, edges |-> <<>>]

GraphHasNode(g, n) == \E i \in 1..Len(g.nodes) : g.nodes[i] = n

GraphSetNode(g, n) ==
    IF GraphHasNode(g, n) THEN g ELSE [g EXCEPT !.nodes = Append(@, n)]

GraphHasEdge(g, v, w) == \E i \in 1..Len(g.edges) : g.edges[i].v = v /\ g.edges[i].w = w

GraphEdgeIndex(g, v, w) == CHOOSE i \in 1..Len(g.edges) : g.edges[i].v = v /\ g.edges[i].w = w

\* setEdge adds the endpoints that are no nodes yet and replaces the label of
\* an edge already there
GraphSetEdge(g, e) ==
    LET g1 == GraphSetNode(GraphSetNode(g, e.v), e.w)
    IN  IF GraphHasEdge(g1, e.v, e.w)
        THEN [g1 EXCEPT !.edges[GraphEdgeIndex(g1, e.v, e.w)] = e]
        ELSE [g1 EXCEPT !.edges = Append(@, e)]

\* removeNode takes the incident edges with it
GraphRemoveNode(g, n) ==
    [nodes |-> SelectSeq(g.nodes, LAMBDA x : x # n),
     edges |-> SelectSeq(g.edges, LAMBDA e : e.v # n /\ e.w # n)]

-----------------------------------------------------------------------------
(* Nodes and edges (graph.ts) *)

EmptyCompat == [compatible |-> 0, incompatible |-> 0]

\* the fields every node has; a field a variant lacks keeps its default
BlankNode(name, type) ==
    [name |-> name, type |-> type, isGroupNode |-> type # "OP",
     parentNode |-> NoName, cardinality |-> 0,
     op |-> <<>>, device |-> Undefined, xlaCluster |-> Undefined,
     compatible |-> FALSE, inputs |-> <<>>,
     inEmbeddings |-> <<>>, outEmbeddings |-> <<>>,
     owningSeries |-> NoName,
     metagraph |-> createGraph, bridgegraph |-> <<>>,
     depth |-> 0, opHistogram |-> EmptyMap, deviceHistogram |-> EmptyMap,
     xlaClusterHistogram |-> EmptyMap, compatibilityHistogram |-> EmptyCompat,
     hasNonControlEdges |-> FALSE, associatedFunction |-> NoName,
     prefix |-> <<>>, suffix |-> <<>>, parent |-> <<>>, clusterId |-> 0,
     ids |-> <<>>]

createMetanode(name) == [BlankNode(name, "META") EXCEPT !.depth = 1]

createSeriesNode(prefix, suffix, parent, clusterId, name) ==
    [BlankNode(name, "SERIES") EXCEPT !.prefix = prefix, !.suffix = suffix,
                                     !.parent = parent, !.clusterId = clusterId]

\* an OpNode of the flat graph, as graph.build hands it over
OpNode(name, op, device, xlaCluster, compatible, inputs, inEmb, outEmb) ==
    [BlankNode(name, "OP") EXCEPT !.cardinality = 1, !.op = op, !.device = device,
                                 !.xlaCluster = xlaCluster, !.compatible = compatible,
                                 !.inputs = inputs,
                                 !.inEmbeddings = inEmb, !.outEmbeddings = outEmb]

createMetaedge(v, w) ==
    [v |-> v, w |-> w, baseEdgeList |-> <<>>, inbound |-> <<>>,
     numRegularEdges |-> 0, numControlEdges |-> 0]

\* MetaedgeImpl.addBaseEdge
addBaseEdge(metaedge, edge) ==
    [metaedge EXCEPT
        !.baseEdgeList = Append(@, edge),
        !.numControlEdges = IF edge.isControlDependency THEN @ + 1 ELSE @,
        !.numRegularEdges = IF edge.isControlDependency THEN @ ELSE @ + 1]

-----------------------------------------------------------------------------
(* addNodes *)

\* one more node in a compatibility histogram
CountCompat(hist, compatible) ==
    IF compatible THEN [hist EXCEPT !.compatible = @ + 1]
    ELSE [hist EXCEPT !.incompatible = @ + 1]

RECURSIVE CountCompatAll(_, _)
CountCompatAll(hist, embeddings) ==
    IF embeddings = <<>> THEN hist
    ELSE CountCompatAll(CountCompat(hist, Head(embeddings).compatible), Tail(embeddings))

\* what one pass of the loop over the path adds to the container `parent`
AddNodesCount(parent, node, remaining) ==
    [parent EXCEPT
        !.depth = Max(@, remaining),
        !.cardinality = @ + node.cardinality,
        !.opHistogram = HistInc(@, node.op),
        !.deviceHistogram = IF node.device # Undefined THEN HistInc(@, node.device) ELSE @,
        !.xlaClusterHistogram =
            IF node.xlaCluster # Undefined THEN HistInc(@, node.xlaCluster) ELSE @,
        !.compatibilityHistogram =
            CountCompatAll(CountCompatAll(CountCompat(@, node.compatible),
                                          node.inEmbeddings), node.outEmbeddings)]

\* as AddNodesChild, but a metanode named with the library prefix is a library
\* function under any parent
AddNodesChildOfAny(st, name, parent) ==
    LET isFunction == StartsWith(name, FUNCTION_LIBRARY_NODE_PREFIX)
        functionName == SubSeq(name, Len(FUNCTION_LIBRARY_NODE_PREFIX) + 1, Len(name))
        child == [createMetanode(name) EXCEPT
                     !.parentNode = parent,
                     !.associatedFunction = IF isFunction THEN functionName ELSE @]
        idx == MapPut(st.index, name, child)
    IN  [index |-> [idx EXCEPT ![parent].metagraph = GraphSetNode(@, name)],
         opToNode |-> IF isFunction /\ functionName \notin DOMAIN st.opToNode
                      THEN MapPut(st.opToNode, functionName, <<>>) ELSE st.opToNode,
         functions |-> IF isFunction THEN st.functions \cup {functionName} ELSE st.functions]

\* the metanode addNodes creates for path[i], a library function when it is a
\* child of the root named with the library prefix
AddNodesChild(st, name, parent) ==
    LET isFunction == StartsWith(name, FUNCTION_LIBRARY_NODE_PREFIX) /\ parent = ROOT_NAME
        functionName == SubSeq(name, Len(FUNCTION_LIBRARY_NODE_PREFIX) + 1, Len(name))
        child == [createMetanode(name) EXCEPT
                     !.parentNode = parent,
                     !.associatedFunction = IF isFunction THEN functionName ELSE @]
        idx == MapPut(st.index, name, child)
    IN  [index |-> [idx EXCEPT ![parent].metagraph = GraphSetNode(@, name)],
         opToNode |-> IF isFunction /\ functionName \notin DOMAIN st.opToNode
                      THEN MapPut(st.opToNode, functionName, <<>>) ELSE st.opToNode,
         functions |-> IF isFunction THEN st.functions \cup {functionName} ELSE st.functions]

\* the counts of one pass of the loop over the path, made in the state
AddNodesCounted(st, node, parent, remaining) ==
    [st EXCEPT !.index[parent] = AddNodesCount(@, node, remaining)]

\* as AddNodesDescend, but a metanode created is made a child of the root
AddNodesDescendFromRoot(counted, name, parent) ==
    IF name \in DOMAIN counted.index THEN counted ELSE AddNodesChild(counted, name, ROOT_NAME)

\* the child path[i + 1] of the container, created when the index lacks it
AddNodesDescend(counted, name, parent) ==
    IF name \in DOMAIN counted.index THEN counted ELSE AddNodesChild(counted, name, parent)

\* the loop over the path of one node, from the pass i (0-based) on; gives
\* the state and the container the node goes into
RECURSIVE AddNodesPath(_, _, _, _, _)
AddNodesPath(st, node, path, i, parent) ==
    IF i = Len(path) - 1
    THEN [st |-> AddNodesCounted(st, node, parent, Len(path) - i), parent |-> parent]
    ELSE AddNodesPath(AddNodesDescend(AddNodesCounted(st, node, parent, Len(path) - i),
                                      path[i + 1], parent),
                      node, path, i + 1, path[i + 1])

RECURSIVE AddEmbeddings(_, _, _)
AddEmbeddings(idx, embeddings, owner) ==
    IF embeddings = <<>> THEN idx
    ELSE AddEmbeddings(MapPut(idx, Head(embeddings).name,
                              [Head(embeddings) EXCEPT !.parentNode = owner]),
                       Tail(embeddings), owner)

\* opToNode[node.op] = opToNode[node.op] || []; opToNode[node.op].push(node.name)
AddNodesTrack(st, node) ==
    [st EXCEPT !.opToNode =
        MapPut(@, node.op, Append(IF node.op \in DOMAIN @ THEN @[node.op] ELSE <<>>,
                                  node.name))]

\* h.setNode(node.name, node); node.parentNode = parent;
\* parent.metagraph.setNode(node.name, node)
AddNodesLeaf(idx, node, parent) ==
    [MapPut(idx, node.name, [node EXCEPT !.parentNode = parent])
        EXCEPT ![parent].metagraph = GraphSetNode(@, node.name)]

\* the end of the body of the loop over graph.nodes, the path walked
AddNodesPlace(walked, node) ==
    [walked.st EXCEPT !.index =
        AddEmbeddings(AddEmbeddings(AddNodesLeaf(walked.st.index, node, walked.parent),
                                    node.inEmbeddings, node.name),
                      node.outEmbeddings, node.name)]

\* the body of the loop over graph.nodes
AddNodesOne(st, node) ==
    AddNodesPlace(AddNodesPath(AddNodesTrack(st, node), node,
                               getHierarchicalPath(node.name), 0, ROOT_NAME),
                  node)

RECURSIVE AddNodesLoop(_, _)
AddNodesLoop(st, nodes) ==
    IF nodes = <<>> THEN st ELSE AddNodesLoop(AddNodesOne(st, Head(nodes)), Tail(nodes))

\* the loop over libraryFunctions: usages is the very array opToNode holds, so
\* it ends with every node of the op
AddNodesUsages(st) ==
    [index |-> st.index,
     libraryFunctions |->
        [f \in st.functions |->
            [node |-> FUNCTION_LIBRARY_NODE_PREFIX \o f, usages |-> st.opToNode[f]]]]

\* addNodes(h, graph): the index and the library functions it leaves
addNodes(idx, g) ==
    AddNodesUsages(AddNodesLoop([index |-> idx, opToNode |-> EmptyMap, functions |-> {}],
                                g.nodes))

\* new Hierarchy(params): the index holds the root alone
NewIndex == (ROOT_NAME :> createMetanode(ROOT_NAME))

-----------------------------------------------------------------------------
(* Series detection *)

GROUP == "GROUP"
UNGROUP == "UNGROUP"

\* +clusterId of a cluster keyed by an op name
NaN == 0 - 1

\* as ClusterNodesLoop, but the children go into one cluster whatever their op
RECURSIVE ClusterNodesLoopAnyOp(_, _, _)
ClusterNodesLoopAnyOp(idx, clusters, names) ==
    IF names = <<>> THEN clusters
    ELSE LET child == idx[Head(names)]
             next == IF child.type = "META" \/ child.op = <<>> THEN clusters
                     ELSE DictPut(clusters, <<>>,
                                  Append(IF DictHas(clusters, <<>>)
                                         THEN DictGet(clusters, <<>>) ELSE <<>>,
                                         child.name))
         IN  ClusterNodesLoopAnyOp(idx, next, Tail(names))

\* clusterNodes(metagraph): op -> names of the direct children with that op,
\* metanodes skipped
RECURSIVE ClusterNodesLoop(_, _, _)
ClusterNodesLoop(idx, clusters, names) ==
    IF names = <<>> THEN clusters
    ELSE LET child == idx[Head(names)]
             next == IF child.type = "META" \/ child.op = <<>> THEN clusters
                     ELSE DictPut(clusters, child.op,
                                  Append(IF DictHas(clusters, child.op)
                                         THEN DictGet(clusters, child.op) ELSE <<>>,
                                         child.name))
         IN  ClusterNodesLoop(idx, next, Tail(names))

clusterNodes(idx, metagraph) == ClusterNodesLoop(idx, <<>>, metagraph.nodes)

\* the number of digits a string ends with
RECURSIVE TrailingDigits(_)
TrailingDigits(s) ==
    IF s = <<>> \/ s[Len(s)] \notin Digits THEN 0
    ELSE 1 + TrailingDigits(SubSeq(s, 1, Len(s) - 1))

\* leaf.match(/^(\D*)_(\d+)$/): <<prefix, digits>>, or <<>> for no match
MatchNumericSuffix(leaf) ==
    LET n == Len(leaf)
        k == TrailingDigits(leaf)
    IN  IF /\ k >= 1
           /\ n > k
           /\ leaf[n - k] = "_"
           /\ \A i \in 1..(n - k - 1) : leaf[i] \notin Digits
        THEN <<SubSeq(leaf, 1, n - k - 1), SubSeq(leaf, n - k + 1, n)>>
        ELSE <<>>

IsGroupName(name) == name # <<>> /\ name[Len(name)] = "*"

\* prefix, id and suffix of the zero-th item
ZerothParts(leaf, isGroup) ==
    [prefix |-> IF isGroup THEN SubSeq(leaf, 1, Len(leaf) - 1) ELSE leaf,
     id |-> 0,
     suffix |-> IF isGroup THEN <<"*">> ELSE <<>>]

\* the candidate a member without a number makes: the zero-th item
ZerothCandidate(name) == ZerothParts(LeafOf(name), IsGroupName(name))

\* prefix, id and suffix of a member, matches being what the pattern gave
NumericParts(matches, name) ==
    IF matches # <<>>
    THEN [prefix |-> matches[1], id |-> ToNumber(matches[2]), suffix |-> <<>>]
    ELSE ZerothCandidate(name)

\* seriesName and the SeriesNode pushed for a member
NumericCandidateOf(parts, name) ==
    [key |-> getSeriesNodeName(parts.prefix, parts.suffix, ParentOf(name)),
     node |-> createSeriesNode(parts.prefix, parts.suffix, ParentOf(name), parts.id, name)]

\* the candidate detectSeriesUsingNumericSuffixes makes of a member
NumericCandidate(name) ==
    NumericCandidateOf(NumericParts(MatchNumericSuffix(LeafOf(name)), name), name)

\* candidatesDict[seriesName] = candidatesDict[seriesName] || [], then the push
CandidatePush(dict, c) ==
    DictPut(dict, c.key,
            Append(IF DictHas(dict, c.key) THEN DictGet(dict, c.key) ELSE <<>>, c.node))

RECURSIVE NumericCandidatesDict(_, _)
NumericCandidatesDict(dict, members) ==
    IF members = <<>> THEN dict
    ELSE NumericCandidatesDict(CandidatePush(dict, NumericCandidate(Head(members))),
                               Tail(members))

\* Array.prototype.sort by clusterId: elements with equal ids keep their order
RECURSIVE SortByClusterId(_)
SortByClusterId(arr) ==
    IF arr = <<>> THEN <<>>
    ELSE LET x == arr[Len(arr)]
             sorted == SortByClusterId(SubSeq(arr, 1, Len(arr) - 1))
             before == SelectSeq(sorted, LAMBDA y : y.clusterId <= x.clusterId)
             after == SelectSeq(sorted, LAMBDA y : y.clusterId > x.clusterId)
         IN  before \o <<x>> \o after

\* the series node addSeriesToDict makes, with the ids and the members
SeriesOf(seriesNodes, clusterId, curSeriesName) ==
    [createSeriesNode(seriesNodes[1].prefix, seriesNodes[1].suffix, seriesNodes[1].parent,
                      clusterId, curSeriesName)
     EXCEPT !.ids = [i \in 1..Len(seriesNodes) |-> seriesNodes[i].clusterId],
            !.metagraph.nodes = [i \in 1..Len(seriesNodes) |-> seriesNodes[i].name]]

\* seriesDict[curSeriesName] = curSeriesNode
SeriesPut(seriesNodes, seriesDict, clusterId, curSeriesName) ==
    DictPut(seriesDict, curSeriesName, SeriesOf(seriesNodes, clusterId, curSeriesName))

\* addSeriesToDict(seriesNodes, seriesDict, clusterId, metagraph, graphOptions)
addSeriesToDict(seriesNodes, seriesDict, clusterId) ==
    IF Len(seriesNodes) > 1
    THEN SeriesPut(seriesNodes, seriesDict, clusterId,
                   getSeriesNodeNameIds(seriesNodes[1].prefix, seriesNodes[1].suffix,
                                        seriesNodes[1].parent, seriesNodes[1].clusterId,
                                        seriesNodes[Len(seriesNodes)].clusterId))
    ELSE seriesDict

\* the loop over the sorted candidates of one group, from position index
\* (1-based) on, seriesNodes being the bunch gathered so far
RECURSIVE GroupRuns(_, _, _, _)
GroupRuns(seriesDict, seriesNodes, seriesInfoArray, pos) ==
    IF pos > Len(seriesInfoArray) THEN addSeriesToDict(seriesNodes, seriesDict, NaN)
    ELSE LET nextNode == seriesInfoArray[pos]
         IN  IF nextNode.clusterId = seriesNodes[Len(seriesNodes)].clusterId + 1
             THEN GroupRuns(seriesDict, Append(seriesNodes, nextNode),
                            seriesInfoArray, pos + 1)
             ELSE GroupRuns(addSeriesToDict(seriesNodes, seriesDict, NaN),
                            <<nextNode>>, seriesInfoArray, pos + 1)

\* the body of the loop over candidatesDict, the array sorted
GroupSorted(seriesDict, seriesInfoArray) ==
    IF Len(seriesInfoArray) < 2 THEN seriesDict
    ELSE GroupRuns(seriesDict, <<seriesInfoArray[1]>>, seriesInfoArray, 2)

\* the loop over candidatesDict
RECURSIVE GroupCandidates(_, _)
GroupCandidates(seriesDict, candidatesDict) ==
    IF candidatesDict = <<>> THEN seriesDict
    ELSE GroupCandidates(GroupSorted(seriesDict, SortByClusterId(Head(candidatesDict).value)),
                         Tail(candidatesDict))

RECURSIVE NumericSuffixesLoop(_, _)
NumericSuffixesLoop(seriesDict, clusters) ==
    IF clusters = <<>> THEN seriesDict
    ELSE NumericSuffixesLoop(
             IF Len(Head(clusters).value) <= 1 THEN seriesDict
             ELSE GroupCandidates(seriesDict,
                                  NumericCandidatesDict(<<>>, Head(clusters).value)),
             Tail(clusters))

detectSeriesUsingNumericSuffixes(clusters) == NumericSuffixesLoop(<<>>, clusters)

\* the number of digits s has from position pos on
RECURSIVE LeadingDigits(_, _)
LeadingDigits(s, pos) ==
    IF pos > Len(s) \/ s[pos] \notin Digits THEN 0 ELSE 1 + LeadingDigits(s, pos + 1)

\* the matches of /(\d+)/g in leaf, left to right: the position (1-based) and
\* the length of every maximal run of digits
RECURSIVE DigitRuns(_, _)
DigitRuns(leaf, pos) ==
    IF pos > Len(leaf) THEN <<>>
    ELSE IF leaf[pos] \notin Digits THEN DigitRuns(leaf, pos + 1)
    ELSE LET len == LeadingDigits(leaf, pos)
         IN  <<[index |-> pos, length |-> len]>> \o DigitRuns(leaf, pos + len)

\* prefix, id and suffix for every run of digits of a leaf
AnywhereParts(leaf, runs) ==
    [k \in 1..Len(runs) |->
        [prefix |-> SubSeq(leaf, 1, runs[k].index - 1),
         id |-> ToNumber(SubSeq(leaf, runs[k].index, runs[k].index + runs[k].length - 1)),
         suffix |-> SubSeq(leaf, runs[k].index + runs[k].length, Len(leaf))]]

\* the candidates of a member: one for every run of digits, or the zero-th
\* item when there is none
AnywhereCandidatesOf(name, leaf, runs) ==
    IF runs = <<>> THEN <<ZerothCandidate(name)>> ELSE AnywhereParts(leaf, runs)

\* the candidates detectSeriesAnywhereInNodeName makes of a member
AnywhereCandidates(name) ==
    AnywhereCandidatesOf(name, LeafOf(name), DigitRuns(LeafOf(name), 1))

\* one pass of the scan: the ids of the series and the series of the member
AnywhereScanPut(dicts, name, c, seriesName) ==
    [forward |->
        DictPut(dicts.forward, seriesName,
                [(IF DictHas(dicts.forward, seriesName)
                  THEN DictGet(dicts.forward, seriesName)
                  ELSE createSeriesNode(c.prefix, c.suffix, ParentOf(name), c.id, name))
                 EXCEPT !.ids = Append(@, c.id)]),
     reverse |->
        DictPut(dicts.reverse, name,
                Append(IF DictHas(dicts.reverse, name) THEN DictGet(dicts.reverse, name)
                       ELSE <<>>,
                       [seriesName |-> seriesName, id |-> c.id]))]

\* the passes of the scan of one member over forwardDict and reverseDict
RECURSIVE AnywhereScan(_, _, _)
AnywhereScan(dicts, name, candidates) ==
    IF candidates = <<>> THEN dicts
    ELSE AnywhereScan(
             AnywhereScanPut(dicts, name, Head(candidates),
                             getSeriesNodeName(Head(candidates).prefix,
                                               Head(candidates).suffix, ParentOf(name))),
             name, Tail(candidates))

RECURSIVE AnywhereDicts(_, _)
AnywhereDicts(dicts, members) ==
    IF members = <<>> THEN dicts
    ELSE AnywhereDicts(AnywhereScan(dicts, Head(members),
                                    AnywhereCandidates(Head(members))),
                       Tail(members))

\* as SortByCount, but of entries of equal count the later one goes first
RECURSIVE SortByCountLater(_, _)
SortByCountLater(forwardDict, arr) ==
    IF arr = <<>> THEN <<>>
    ELSE LET Count(e) == Len(DictGet(forwardDict, e.seriesName).ids)
             x == arr[Len(arr)]
             sorted == SortByCountLater(forwardDict, SubSeq(arr, 1, Len(arr) - 1))
             before == SelectSeq(sorted, LAMBDA y : Count(y) > Count(x))
             after == SelectSeq(sorted, LAMBDA y : Count(y) <= Count(x))
         IN  before \o <<x>> \o after

\* seriesNameIdArray.sort by the number of ids of the series, largest first:
\* entries of equal count keep their order
RECURSIVE SortByCount(_, _)
SortByCount(forwardDict, arr) ==
    IF arr = <<>> THEN <<>>
    ELSE LET Count(e) == Len(DictGet(forwardDict, e.seriesName).ids)
             x == arr[Len(arr)]
             sorted == SortByCount(forwardDict, SubSeq(arr, 1, Len(arr) - 1))
             before == SelectSeq(sorted, LAMBDA y : Count(y) >= Count(x))
             after == SelectSeq(sorted, LAMBDA y : Count(y) < Count(x))
         IN  before \o <<x>> \o after

\* the SeriesNode pushed for a member, series being the entry of forwardDict
\* its best series has
AnywhereNode(series, name, best) ==
    [key |-> best.seriesName,
     node |-> createSeriesNode(series.prefix, series.suffix, ParentOf(name), best.id, name)]

\* the member goes to the first series of its sorted array
AnywhereBest(forwardDict, name, best) ==
    AnywhereNode(DictGet(forwardDict, best.seriesName), name, best)

\* the loop over reverseDict
RECURSIVE AnywhereCandidatesDict(_, _, _)
AnywhereCandidatesDict(dict, forwardDict, reverseDict) ==
    IF reverseDict = <<>> THEN dict
    ELSE AnywhereCandidatesDict(
             CandidatePush(dict,
                           AnywhereBest(forwardDict, Head(reverseDict).key,
                                        SortByCount(forwardDict,
                                                    Head(reverseDict).value)[1])),
             forwardDict, Tail(reverseDict))

\* the body of the loop over the clusters, forwardDict and reverseDict filled
AnywhereGroup(seriesDict, dicts) ==
    GroupCandidates(seriesDict, AnywhereCandidatesDict(<<>>, dicts.forward, dicts.reverse))

RECURSIVE AnywhereLoop(_, _)
AnywhereLoop(seriesDict, clusters) ==
    IF clusters = <<>> THEN seriesDict
    ELSE AnywhereLoop(
             IF Len(Head(clusters).value) <= 1 THEN seriesDict
             ELSE AnywhereGroup(seriesDict,
                                AnywhereDicts([forward |-> <<>>, reverse |-> <<>>],
                                              Head(clusters).value)),
             Tail(clusters))

detectSeriesAnywhereInNodeName(clusters) == AnywhereLoop(<<>>, clusters)

\* what the loop over the members of an accepted series adds to the series
\* node for one member
\* as GroupSeriesCount, but the embeddings of the member are not counted
GroupSeriesCountMember(seriesNode, child) ==
    [seriesNode EXCEPT
        !.parentNode = child.parentNode,
        !.cardinality = @ + 1,
        !.deviceHistogram = IF child.device # Undefined THEN HistInc(@, child.device) ELSE @,
        !.xlaClusterHistogram =
            IF child.xlaCluster # Undefined THEN HistInc(@, child.xlaCluster) ELSE @,
        !.compatibilityHistogram = CountCompat(@, child.compatible)]

\* as GroupSeriesCount, but the series node is not given the parent of the member
GroupSeriesCountOrphan(seriesNode, child) ==
    [seriesNode EXCEPT
        !.cardinality = @ + 1,
        !.deviceHistogram = IF child.device # Undefined THEN HistInc(@, child.device) ELSE @,
        !.xlaClusterHistogram =
            IF child.xlaCluster # Undefined THEN HistInc(@, child.xlaCluster) ELSE @,
        !.compatibilityHistogram =
            CountCompatAll(CountCompatAll(CountCompat(@, child.compatible),
                                          child.inEmbeddings), child.outEmbeddings)]

GroupSeriesCount(seriesNode, child) ==
    [seriesNode EXCEPT
        !.parentNode = child.parentNode,
        !.cardinality = @ + 1,
        !.deviceHistogram = IF child.device # Undefined THEN HistInc(@, child.device) ELSE @,
        !.xlaClusterHistogram =
            IF child.xlaCluster # Undefined THEN HistInc(@, child.xlaCluster) ELSE @,
        !.compatibilityHistogram =
            CountCompatAll(CountCompatAll(CountCompat(@, child.compatible),
                                          child.inEmbeddings), child.outEmbeddings)]

\* as GroupSeriesOwn, but owningSeries is set where it is set already
RECURSIVE GroupSeriesOwnSet(_, _, _, _)
GroupSeriesOwnSet(st, metanode, seriesName, members) ==
    IF members = <<>> \/ st.failed THEN st
    ELSE LET n == Head(members)
         IN  IF ~GraphHasNode(st.index[metanode].metagraph, n)
             THEN [st EXCEPT !.failed = TRUE]
             ELSE GroupSeriesOwnSet(
                      [st EXCEPT !.index[n].owningSeries =
                                     IF @ # NoName THEN seriesName ELSE @],
                      metanode, seriesName, Tail(members))

\* the first loop over the members of a series: owningSeries is set where it
\* is not set yet. A member that is no node of the metagraph any more makes
\* the read of its owningSeries throw.
RECURSIVE GroupSeriesOwn(_, _, _, _)
GroupSeriesOwn(st, metanode, seriesName, members) ==
    IF members = <<>> \/ st.failed THEN st
    ELSE LET n == Head(members)
         IN  IF ~GraphHasNode(st.index[metanode].metagraph, n)
             THEN [st EXCEPT !.failed = TRUE]
             ELSE GroupSeriesOwn(
                      [st EXCEPT !.index[n].owningSeries =
                                     IF @ = NoName THEN seriesName ELSE @],
                      metanode, seriesName, Tail(members))

\* as GroupSeriesMove, but the parent of a member stays the metanode
RECURSIVE GroupSeriesMoveListed(_, _, _, _)
GroupSeriesMoveListed(st, metanode, seriesName, members) ==
    IF members = <<>> \/ st.failed THEN st
    ELSE LET n == Head(members)
         IN  IF ~GraphHasNode(st.index[metanode].metagraph, n)
             THEN [st EXCEPT !.failed = TRUE]
             ELSE GroupSeriesMoveListed(
                      [st EXCEPT
                          !.index[seriesName] =
                              [GroupSeriesCount(@, st.index[n])
                               EXCEPT !.metagraph = GraphSetNode(@, n)],
                          !.seriesNames = MapPut(@, n, seriesName),
                          !.index[metanode].metagraph = GraphRemoveNode(@, n)],
                      metanode, seriesName, Tail(members))

\* the second loop over the members: each moves from the metagraph of the
\* metanode into the series node
RECURSIVE GroupSeriesMove(_, _, _, _)
GroupSeriesMove(st, metanode, seriesName, members) ==
    IF members = <<>> \/ st.failed THEN st
    ELSE LET n == Head(members)
         IN  IF ~GraphHasNode(st.index[metanode].metagraph, n)
             THEN [st EXCEPT !.failed = TRUE]
             ELSE GroupSeriesMove(
                      [st EXCEPT
                          !.index[seriesName] =
                              [GroupSeriesCount(@, st.index[n])
                               EXCEPT !.metagraph = GraphSetNode(@, n)],
                          !.index[n].parentNode = seriesName,
                          !.seriesNames = MapPut(@, n, seriesName),
                          !.index[metanode].metagraph = GraphRemoveNode(@, n)],
                      metanode, seriesName, Tail(members))

\* as GroupSeriesMark, but whatever the map holds
GroupSeriesMarkAlways(owned, seriesNode, threshold) ==
    IF Len(seriesNode.metagraph.nodes) < threshold
    THEN [owned EXCEPT !.map = MapPut(@, seriesNode.name, UNGROUP)]
    ELSE owned

\* map[seriesNode.name] = UNGROUP for a series below the threshold that the
\* map does not hold
GroupSeriesMark(owned, seriesNode, threshold) ==
    IF Len(seriesNode.metagraph.nodes) < threshold /\ seriesNode.name \notin DOMAIN owned.map
    THEN [owned EXCEPT !.map = MapPut(@, seriesNode.name, UNGROUP)]
    ELSE owned

\* as GroupSeriesSplice, but the series node is set in the index alone
GroupSeriesSpliceUnlisted(marked, metanode, seriesName, seriesNode) ==
    IF seriesNode.name \in DOMAIN marked.map /\ marked.map[seriesNode.name] = UNGROUP
    THEN marked
    ELSE GroupSeriesMove([marked EXCEPT !.index = MapPut(@, seriesName, seriesNode)],
                         metanode, seriesName, seriesNode.metagraph.nodes)

\* the series node is set in the index and in the metagraph, and the members
\* are moved, unless the map holds UNGROUP for the series
GroupSeriesSplice(marked, metanode, seriesName, seriesNode) ==
    IF seriesNode.name \in DOMAIN marked.map /\ marked.map[seriesNode.name] = UNGROUP
    THEN marked
    ELSE GroupSeriesMove(
             [marked EXCEPT
                 !.index = [MapPut(@, seriesName, seriesNode)
                            EXCEPT ![metanode].metagraph = GraphSetNode(@, seriesName)]],
             metanode, seriesName, seriesNode.metagraph.nodes)

\* the body of the loop over seriesDict, owningSeries set
GroupSeriesOwned(owned, metanode, seriesName, seriesNode, threshold) ==
    IF owned.failed THEN owned
    ELSE GroupSeriesSplice(GroupSeriesMark(owned, seriesNode, threshold),
                           metanode, seriesName, seriesNode)

\* the body of the loop over seriesDict
GroupSeriesOne(st, metanode, seriesName, seriesNode, threshold) ==
    GroupSeriesOwned(GroupSeriesOwn(st, metanode, seriesName, seriesNode.metagraph.nodes),
                     metanode, seriesName, seriesNode, threshold)

RECURSIVE GroupSeriesDict(_, _, _, _)
GroupSeriesDict(st, metanode, seriesDict, threshold) ==
    IF seriesDict = <<>> \/ st.failed THEN st
    ELSE GroupSeriesDict(GroupSeriesOne(st, metanode, Head(seriesDict).key,
                                        Head(seriesDict).value, threshold),
                         metanode, Tail(seriesDict), threshold)

detectSeries(clusters, useGeneralizedSeriesPatterns) ==
    IF useGeneralizedSeriesPatterns THEN detectSeriesAnywhereInNodeName(clusters)
    ELSE detectSeriesUsingNumericSuffixes(clusters)

\* the rest of groupSeries, the metanodes among the children done
GroupSeriesHere(below, metanode, threshold, general) ==
    IF below.failed THEN below
    ELSE GroupSeriesDict(
             below, metanode,
             detectSeries(clusterNodes(below.index, below.index[metanode].metagraph),
                          general),
             threshold)

\* groupSeries(metanode, hierarchy, seriesNames, threshold, map,
\* useGeneralizedSeriesPatterns), st holding the index, seriesNames and map;
\* the metanodes among the children first, in the order of the metagraph
RECURSIVE groupSeries(_, _, _, _)
RECURSIVE GroupSeriesChildren(_, _, _, _)
GroupSeriesChildren(st, children, threshold, general) ==
    IF children = <<>> \/ st.failed THEN st
    ELSE GroupSeriesChildren(
             IF st.index[Head(children)].type = "META"
             THEN groupSeries(st, Head(children), threshold, general) ELSE st,
             Tail(children), threshold, general)

groupSeries(st, metanode, threshold, general) ==
    GroupSeriesHere(GroupSeriesChildren(st, st.index[metanode].metagraph.nodes,
                                        threshold, general),
                    metanode, threshold, general)

-----------------------------------------------------------------------------
(* addEdges *)

\* graph.nodes[name], as a list of at most one node
GraphNode(g, name) == SelectSeq(g.nodes, LAMBDA n : n.name = name)

\* getPath(node, path): the names from the node up to the root, the node first
RECURSIVE AncestorPath(_, _)
AncestorPath(idx, name) ==
    IF name = NoName THEN <<>>
    ELSE <<name>> \o AncestorPath(idx, idx[name].parentNode)

getPath(idx, g, name) ==
    IF GraphNode(g, name) = <<>> THEN <<>> ELSE AncestorPath(idx, name)

\* the loop that walks both paths down from the root while they agree; the
\* positions are 1-based, so 0 is the code's -1
RECURSIVE LowestDifference(_, _, _, _)
LowestDifference(sourcePath, destPath, sourceAncestorIndex, destAncestorIndex) ==
    IF sourcePath[sourceAncestorIndex] # destPath[destAncestorIndex]
    THEN [thrown |-> FALSE, source |-> sourceAncestorIndex, dest |-> destAncestorIndex]
    ELSE IF sourceAncestorIndex - 1 < 1 \/ destAncestorIndex - 1 < 1
    THEN [thrown |-> TRUE, source |-> sourceAncestorIndex - 1,
          dest |-> destAncestorIndex - 1]
    ELSE LowestDifference(sourcePath, destPath,
                          sourceAncestorIndex - 1, destAncestorIndex - 1)

\* as AddEdgesInto, but a Metaedge is created for every raw edge
AddEdgesIntoAnew(st, baseEdge, sharedAncestorNode, sourceAncestorName, destAncestorName) ==
    [st EXCEPT
        !.index[sharedAncestorNode].metagraph =
            GraphSetEdge(@, addBaseEdge(createMetaedge(sourceAncestorName, destAncestorName),
                                        baseEdge)),
        !.index[sharedAncestorNode].hasNonControlEdges = @ \/ ~baseEdge.isControlDependency]

\* the Metaedge of the shared ancestor is found or created, and gets the edge
AddEdgesInto(st, baseEdge, sharedAncestorNode, sourceAncestorName, destAncestorName) ==
    [st EXCEPT
        !.index[sharedAncestorNode].metagraph =
            GraphSetEdge(@, addBaseEdge(
                IF GraphHasEdge(@, sourceAncestorName, destAncestorName)
                THEN @.edges[GraphEdgeIndex(@, sourceAncestorName, destAncestorName)]
                ELSE createMetaedge(sourceAncestorName, destAncestorName),
                baseEdge)),
        !.index[sharedAncestorNode].hasNonControlEdges = @ \/ ~baseEdge.isControlDependency]

\* as AddEdgesAt, but the Metaedge joins the endpoints of the raw edge
\* themselves, not the children of the shared ancestor above them
AddEdgesAtEndpoints(st, baseEdge, sourcePath, destPath, diff) ==
    IF diff.thrown THEN [st EXCEPT !.failed = TRUE]
    ELSE AddEdgesInto(st, baseEdge, sourcePath[diff.source + 1],
                      sourcePath[1], destPath[1])

\* as AddEdgesAt, but an edge whose paths do not part is passed over
AddEdgesAtOrSkip(st, baseEdge, sourcePath, destPath, diff) ==
    IF diff.thrown THEN st
    ELSE AddEdgesInto(st, baseEdge, sourcePath[diff.source + 1],
                      sourcePath[diff.source], destPath[diff.dest])

\* the body of the loop over graph.edges, the paths having parted at diff
AddEdgesAt(st, baseEdge, sourcePath, destPath, diff) ==
    IF diff.thrown THEN [st EXCEPT !.failed = TRUE]
    ELSE AddEdgesInto(st, baseEdge, sourcePath[diff.source + 1],
                      sourcePath[diff.source], destPath[diff.dest])

\* as AddEdgesPaths, but an endpoint without a path is an error
AddEdgesPathsOrThrow(st, baseEdge, sourcePath, destPath) ==
    IF sourcePath = <<>> \/ destPath = <<>> THEN [st EXCEPT !.failed = TRUE]
    ELSE AddEdgesAt(st, baseEdge, sourcePath, destPath,
                    LowestDifference(sourcePath, destPath, Len(sourcePath), Len(destPath)))

\* the body of the loop over graph.edges, the two paths taken
AddEdgesPaths(st, baseEdge, sourcePath, destPath) ==
    IF sourcePath = <<>> \/ destPath = <<>> THEN st
    ELSE AddEdgesAt(st, baseEdge, sourcePath, destPath,
                    LowestDifference(sourcePath, destPath, Len(sourcePath), Len(destPath)))

\* the body of the loop over graph.edges
AddEdgesOne(st, g, baseEdge) ==
    AddEdgesPaths(st, baseEdge, getPath(st.index, g, baseEdge.v),
                  getPath(st.index, g, baseEdge.w))

RECURSIVE AddEdgesLoop(_, _, _)
AddEdgesLoop(st, g, edges) ==
    IF edges = <<>> \/ st.failed THEN st
    ELSE AddEdgesLoop(AddEdgesOne(st, g, Head(edges)), g, Tail(edges))

\* addEdges(h, graph, seriesNames)
addEdges(idx, g) == AddEdgesLoop([index |-> idx, failed |-> FALSE], g, g.edges)

-----------------------------------------------------------------------------
(* Queries on a hierarchy *)

\* 'metagraph' in node
HasMetagraph(node) == node.type # "OP"

\* getChildName(nodeName, descendantName): the child of nodeName above the
\* descendant, as a list of at most one name (none: the call throws)
RECURSIVE ChildNameFrom(_, _, _)
ChildNameFrom(idx, nodeName, currentNode) ==
    IF currentNode = NoName \/ currentNode \notin DOMAIN idx THEN <<>>
    ELSE IF idx[currentNode].parentNode # NoName /\ idx[currentNode].parentNode = nodeName
    THEN <<currentNode>>
    ELSE ChildNameFrom(idx, nodeName, idx[currentNode].parentNode)

getChildName(idx, nodeName, descendantName) == ChildNameFrom(idx, nodeName, descendantName)

\* as BridgeEdgeInto, but the Metaedge is created anew for every edge
BridgeEdgeCreated(br, baseEdge, v, w, inbound) ==
    [br EXCEPT !.graph =
        GraphSetEdge(@, addBaseEdge([createMetaedge(v, w) EXCEPT !.inbound = <<inbound>>],
                                    baseEdge))]

\* the Metaedge of the bridgegraph is found or created, and gets the edge
BridgeEdgeInto(br, baseEdge, v, w, inbound) ==
    [br EXCEPT !.graph =
        GraphSetEdge(@, addBaseEdge(
            IF GraphHasEdge(@, v, w) THEN @.edges[GraphEdgeIndex(@, v, w)]
            ELSE [createMetaedge(v, w) EXCEPT !.inbound = <<inbound>>],
            baseEdge))]

\* bridgeEdgeObj, childName being what getChildName gave
BridgeChild(br, baseEdge, parentEdgeObj, inbound, childName) ==
    IF childName = <<>> THEN [br EXCEPT !.thrown = TRUE]
    ELSE BridgeEdgeInto(br, baseEdge,
                        IF inbound THEN parentEdgeObj.v ELSE childName[1],
                        IF inbound THEN childName[1] ELSE parentEdgeObj.w,
                        inbound)

\* the body of the loop over the base edges of one Metaedge of the parent
BridgeBaseEdge(br, idx, nodeName, parentEdgeObj, baseEdge) ==
    BridgeChild(br, baseEdge, parentEdgeObj, parentEdgeObj.w = nodeName,
                getChildName(idx, nodeName,
                             IF parentEdgeObj.w = nodeName THEN baseEdge.w ELSE baseEdge.v))

RECURSIVE BridgeBaseEdges(_, _, _, _, _)
BridgeBaseEdges(br, idx, nodeName, parentEdgeObj, baseEdges) ==
    IF baseEdges = <<>> \/ br.thrown THEN br
    ELSE BridgeBaseEdges(BridgeBaseEdge(br, idx, nodeName, parentEdgeObj, Head(baseEdges)),
                         idx, nodeName, parentEdgeObj, Tail(baseEdges))

\* the loop over the edges of one graph of the parent, those that touch the node
RECURSIVE BridgeParentEdges(_, _, _, _)
BridgeParentEdges(br, idx, nodeName, parentEdges) ==
    IF parentEdges = <<>> \/ br.thrown THEN br
    ELSE BridgeParentEdges(
             IF Head(parentEdges).v = nodeName \/ Head(parentEdges).w = nodeName
             THEN BridgeBaseEdges(br, idx, nodeName, Head(parentEdges),
                                  Head(parentEdges).baseEdgeList)
             ELSE br,
             idx, nodeName, Tail(parentEdges))

\* groupNode.bridgegraph = createGraph(...)
BridgeCreated(idx, nodeName) == [idx EXCEPT ![nodeName].bridgegraph = <<createGraph>>]

\* the loops over parentMetagraph and parentBridgegraph
BridgeFill(idx, nodeName, parentNode) ==
    BridgeParentEdges(
        BridgeParentEdges([graph |-> createGraph, thrown |-> FALSE], idx, nodeName,
                          parentNode.metagraph.edges),
        idx, nodeName, parentNode.bridgegraph[1].edges)

\* as BridgeStore, but the graph filled is kept as the metagraph of the node
BridgeStoreAsMetagraph(above, nodeName, filled) ==
    [index |-> [above.index EXCEPT ![nodeName].metagraph = filled.graph],
     thrown |-> filled.thrown,
     created |-> <<nodeName>> \o above.created]

\* the bridgegraph filled is the one the node holds
BridgeStore(above, nodeName, filled) ==
    [index |-> [above.index EXCEPT ![nodeName].bridgegraph = <<filled.graph>>],
     thrown |-> filled.thrown,
     created |-> <<nodeName>> \o above.created]

\* the rest of getBridgegraph, the bridgegraph of the parent made
BridgeBelow(above, nodeName, parentName) ==
    IF above.thrown THEN [above EXCEPT !.created = <<nodeName>> \o @]
    ELSE BridgeStore(above, nodeName,
                     BridgeFill(above.index, nodeName, above.index[parentName]))

\* getBridgegraph(nodeName) for a group node of the index: the index with the
\* bridgegraph of the node and of its ancestors made where they were missing
RECURSIVE getBridgegraph(_, _)
getBridgegraph(idx, nodeName) ==
    IF idx[nodeName].bridgegraph # <<>>
    THEN [index |-> idx, thrown |-> FALSE, created |-> <<>>]
    ELSE IF \/ idx[nodeName].parentNode = NoName
            \/ ~HasMetagraph(idx[idx[nodeName].parentNode])
    THEN [index |-> BridgeCreated(idx, nodeName), thrown |-> FALSE,
          created |-> <<nodeName>>]
    ELSE BridgeBelow(getBridgegraph(BridgeCreated(idx, nodeName), idx[nodeName].parentNode),
                     nodeName, idx[nodeName].parentNode)

\* the loop of getTopologicalOrdering over the edges of the metagraph
RECURSIVE OrderingEdges(_, _)
OrderingEdges(acc, edges) ==
    IF edges = <<>> THEN acc
    ELSE LET e == Head(edges)
             old == IF DictHas(acc.successors, e.v) THEN DictGet(acc.successors, e.v)
                    ELSE <<>>
             next == IF e.numRegularEdges = 0 THEN acc
                     ELSE [successors |-> DictPut(acc.successors, e.v, Append(old, e.w)),
                           destinations |-> acc.destinations \cup {e.w}]
         IN  OrderingEdges(next, Tail(edges))

\* the breadth-first loop: successors is a function from here on, a name
\* leaves its domain when it is dequeued
RECURSIVE OrderingLoop(_, _, _, _)
OrderingLoop(queue, successors, ordering, position) ==
    IF queue = <<>> THEN ordering
    ELSE LET childName == Head(queue)
             pushed == IF childName \in DOMAIN successors THEN successors[childName]
                       ELSE <<>>
         IN  OrderingLoop(Tail(queue) \o pushed,
                          [n \in DOMAIN successors \ {childName} |-> successors[n]],
                          MapPut(ordering, childName, position), position + 1)

\* _.keys(successors)
OrderingKeys(successors) == [i \in 1..Len(successors) |-> successors[i].key]

\* the queue is seeded with the sources that are no destinations
OrderingStart(found, keys) ==
    OrderingLoop(SelectSeq(keys, LAMBDA k : k \notin found.destinations),
                 [k \in Range(keys) |-> DictGet(found.successors, k)],
                 EmptyMap, 0)

\* the breadth-first traversal, successors and destinations gathered
OrderingFrom(found) == OrderingStart(found, OrderingKeys(found.successors))

\* the ordering getTopologicalOrdering computes for a group node
TopologicalOrdering(node) ==
    OrderingFrom(OrderingEdges([successors |-> <<>>, destinations |-> {}],
                               node.metagraph.edges))

\* Metanode.leaves(): the names of the nodes below that are no group nodes,
\* breadth first
RECURSIVE LeavesLoop(_, _)
LeavesLoop(idx, queue) ==
    IF queue = <<>> THEN <<>>
    ELSE LET node == idx[Head(queue)]
         IN  IF node.isGroupNode
             THEN LeavesLoop(idx, Tail(queue) \o node.metagraph.nodes)
             ELSE <<node.name>> \o LeavesLoop(idx, Tail(queue))

leaves(idx, name) == LeavesLoop(idx, <<name>>)

\* _.keys of the dictionary a loop fills with the values that are set: each
\* value once, in order of first appearance
RECURSIVE KeysOf(_)
KeysOf(values) ==
    IF values = <<>> THEN <<>>
    ELSE LET rest == KeysOf(SubSeq(values, 1, Len(values) - 1))
             value == values[Len(values)]
         IN  IF value = Undefined \/ value \in Range(rest) THEN rest
             ELSE Append(rest, value)

\* the walk of joinAndAggregateStats from a leaf up to the root
RECURSIVE BubbleUp(_, _, _)
BubbleUp(idx, leaf, node) ==
    LET parent == idx[node].parentNode
    IN  IF parent = NoName THEN idx
        ELSE BubbleUp(
                 [idx EXCEPT
                     ![parent].deviceHistogram =
                         IF leaf.device # Undefined THEN HistInc(@, leaf.device) ELSE @,
                     ![parent].xlaClusterHistogram =
                         IF leaf.xlaCluster # Undefined THEN HistInc(@, leaf.xlaCluster)
                         ELSE @],
                 leaf, parent)

RECURSIVE BubbleUpAll(_, _)
BubbleUpAll(idx, names) ==
    IF names = <<>> THEN idx
    ELSE BubbleUpAll(BubbleUp(idx, idx[Head(names)], Head(names)), Tail(names))

\* joinAndAggregateStats(h, stats): the index it leaves. No leaf of the model
\* carries stats, so combine is never called.
joinAndAggregateStats(idx) ==
    LET reset == [n \in DOMAIN idx |->
                    IF idx[n].isGroupNode THEN [idx[n] EXCEPT !.deviceHistogram = EmptyMap]
                    ELSE idx[n]]
    IN  BubbleUpAll(reset, leaves(idx, ROOT_NAME))

\* the incompatible embeddings of a list, in order
IncompatibleOf(embeddings) ==
    LET bad == SelectSeq(embeddings, LAMBDA e : ~e.compatible)
    IN  [i \in 1..Len(bad) |-> bad[i].name]

\* getIncompatibleOps(hierarchy, hierarchyParams): the names of the nodes
\* returned; hierarchyParams is a list of at most one HierarchyParams
RECURSIVE IncompatibleLoop(_, _, _, _)
IncompatibleLoop(acc, idx, hierarchyParams, names) ==
    IF names = <<>> THEN acc.nodes
    ELSE LET node == idx[Head(names)]
             ungrouped == /\ hierarchyParams # <<>>
                          /\ node.owningSeries \in DOMAIN hierarchyParams[1].seriesMap
                          /\ hierarchyParams[1].seriesMap[node.owningSeries] = UNGROUP
             addsSeries == /\ node.owningSeries \notin acc.addedSeriesNodes
                           /\ node.owningSeries \in DOMAIN idx
             own == IF node.compatible THEN acc
                    ELSE IF node.owningSeries = NoName \/ ungrouped
                    THEN [acc EXCEPT !.nodes = Append(@, node.name)]
                    ELSE IF addsSeries
                    THEN [nodes |-> Append(acc.nodes, node.owningSeries),
                          addedSeriesNodes |-> acc.addedSeriesNodes \cup {node.owningSeries}]
                    ELSE acc
             next == IF node.type # "OP" THEN acc
                     ELSE [own EXCEPT !.nodes = @ \o IncompatibleOf(node.inEmbeddings)
                                                  \o IncompatibleOf(node.outEmbeddings)]
         IN  IncompatibleLoop(next, idx, hierarchyParams, Tail(names))

getIncompatibleOps(idx, hierarchyParams) ==
    IncompatibleLoop([nodes |-> <<>>, addedSeriesNodes |-> {}], idx, hierarchyParams,
                     leaves(idx, ROOT_NAME))

\* findEdgeTargetsInGraph(graph, node, inbound, targets)
RECURSIVE FindEdgeTargets(_, _)
FindEdgeTargets(targets, edges) ==
    IF edges = <<>> THEN targets
    ELSE LET metaedge == Head(edges)
             next == IF metaedge.numRegularEdges # 0
                     THEN [targets EXCEPT !.regular = Append(@, metaedge)]
                     ELSE [targets EXCEPT !.control = Append(@, metaedge)]
         IN  FindEdgeTargets(next, Tail(edges))

\* as findEdgeTargetsInGraph, but the out edges are taken in both directions
findEdgeTargetsOutbound(g, name, inbound, targets) ==
    FindEdgeTargets(targets, SelectSeq(g.edges, LAMBDA e : e.v = name))

findEdgeTargetsInGraph(g, name, inbound, targets) ==
    FindEdgeTargets(targets,
                    SelectSeq(g.edges, LAMBDA e : IF inbound THEN e.w = name ELSE e.v = name))

\* the two calls of findEdgeTargetsInGraph, the bridgegraph of the parent made
OneWayTargets(bridged, name, parentName, inEdges) ==
    IF bridged.thrown
    THEN [edges |-> [control |-> <<>>, regular |-> <<>>], index |-> bridged.index,
          thrown |-> TRUE, created |-> bridged.created]
    ELSE [edges |->
             findEdgeTargetsInGraph(
                 bridged.index[parentName].bridgegraph[1], name, inEdges,
                 findEdgeTargetsInGraph(bridged.index[parentName].metagraph, name, inEdges,
                                        [control |-> <<>>, regular |-> <<>>])),
          index |-> bridged.index, thrown |-> FALSE, created |-> bridged.created]

\* getOneWayEdges(node, inEdges): the edges found, and the index with the
\* bridgegraph of the parent made
getOneWayEdges(idx, name, inEdges) ==
    IF idx[name].parentNode = NoName \/ ~idx[idx[name].parentNode].isGroupNode
    THEN [edges |-> [control |-> <<>>, regular |-> <<>>], index |-> idx, thrown |-> FALSE,
          created |-> <<>>]
    ELSE OneWayTargets(getBridgegraph(idx, idx[name].parentNode), name,
                       idx[name].parentNode, inEdges)

\* the Metaedge getPredecessors and getSuccessors make for an input that is
\* an embedding
EmbeddingEdge(v, w, input) ==
    addBaseEdge(createMetaedge(v, w),
                [v |-> v, w |-> w, isControlDependency |-> input.isControlDependency])

RECURSIVE EmbeddedPredecessors(_, _)
EmbeddedPredecessors(node, embeddings) ==
    IF embeddings = <<>> THEN <<>>
    ELSE LET embeddedNode == Head(embeddings)
             matching == SelectSeq(node.inputs, LAMBDA input : input.name = embeddedNode.name)
         IN  [i \in 1..Len(matching) |->
                 EmbeddingEdge(embeddedNode.name, node.name, matching[i])]
             \o EmbeddedPredecessors(node, Tail(embeddings))

RECURSIVE EmbeddedSuccessors(_, _)
EmbeddedSuccessors(node, embeddings) ==
    IF embeddings = <<>> THEN <<>>
    ELSE LET embeddedNode == Head(embeddings)
             matching == SelectSeq(embeddedNode.inputs, LAMBDA input : input.name = node.name)
         IN  [i \in 1..Len(matching) |->
                 EmbeddingEdge(node.name, embeddedNode.name, matching[i])]
             \o EmbeddedSuccessors(node, Tail(embeddings))

\* the embedded edges go after the regular edges found, for a node that is no
\* group node
WithEmbedded(found, node, embedded) ==
    IF found.thrown \/ node.isGroupNode THEN found
    ELSE [found EXCEPT !.edges.regular = @ \o embedded]

\* getPredecessors(nodeName) for a name of the index
getPredecessors(idx, nodeName) ==
    WithEmbedded(getOneWayEdges(idx, nodeName, TRUE), idx[nodeName],
                 EmbeddedPredecessors(idx[nodeName], idx[nodeName].inEmbeddings))

\* getSuccessors(nodeName) for a name of the index
getSuccessors(idx, nodeName) ==
    WithEmbedded(getOneWayEdges(idx, nodeName, FALSE), idx[nodeName],
                 EmbeddedSuccessors(idx[nodeName], idx[nodeName].outEmbeddings))

-----------------------------------------------------------------------------
(* The flat graphs and parameters build is given *)

MaxNodes == 3
MaxEdges == 2
MaxOrderEdges == 4
MaxQueries == 2
MaxSameIdNodes == 4
MaxSteps == 12

Str(c) == <<c>>
Numbered(prefix, n) == prefix \o <<"_">> \o NumberToString(n)
Under(container, leaf) == container \o <<NAMESPACE_DELIM>> \o leaf

\* the sublists of a list with at most max elements
SubLists(list, max) ==
    {[i \in 1..Cardinality(sel) |-> list[SortedSeq(sel)[i]]] :
        sel \in {x \in SUBSET (1..Len(list)) : Cardinality(x) <= max}}

\* a name no node of a flat graph has: an embedding taken out of graph.nodes
EmbeddedOnly == <<"e">>

PlainNode(name) == OpNode(name, <<"A">>, Undefined, Undefined, TRUE, <<>>, <<>>, <<>>)

BaseEdge(v, w, control) == [v |-> v, w |-> w, isControlDependency |-> control]

Params(threshold, map, general) ==
    [seriesNodeMinSize |-> threshold, seriesMap |-> map,
     useGeneralizedSeriesPatterns |-> general]

\* nested names, edges between any two of the nodes, onto a node itself and
\* onto an embedded node
TreeNames ==
    <<Numbered(Str("f"), 1), Numbered(Str("f"), 2),
      Under(Str("a"), Numbered(Str("f"), 1)), Under(Str("a"), Numbered(Str("f"), 2)),
      Under(Under(Str("a"), Str("b")), Str("g"))>>

TreeEdges(names) ==
    LET n == Len(names)
        pairs == SortedSeq({(i - 1) * n + (j - 1) : i, j \in 1..n}
                           \ {(i - 1) * n + (i - 1) : i \in 1..n})
        plain == [k \in 1..Len(pairs) |->
                    BaseEdge(names[(pairs[k] \div n) + 1], names[(pairs[k] % n) + 1], FALSE)]
    IN  IF n = 0 THEN <<>>
        ELSE plain
             \o <<BaseEdge(names[1], names[1], FALSE), BaseEdge(names[1], EmbeddedOnly, FALSE)>>
             \o (IF n >= 2 THEN <<BaseEdge(names[1], names[2], TRUE),
                                  BaseEdge(names[2], names[1], TRUE)>>
                 ELSE <<>>)

TreeInputsOf(names) ==
    {[nodes |-> [i \in 1..Len(names) |-> PlainNode(names[i])],
      edges |-> edges,
      params |-> Params(2, EmptyMap, FALSE)] :
        edges \in SubLists(TreeEdges(names), MaxEdges)}

TreeInputs == UNION {TreeInputsOf(names) : names \in SubLists(TreeNames, MaxNodes)}

\* the names of the two embeddings of a node that has embeddings
InName(name) == <<"i", ":">> \o name
OutName(name) == <<"o", ":">> \o name

\* an incompatible constant embedded into its consumer
InEmbedding(name) ==
    OpNode(InName(name), <<"C">>, Undefined, Undefined, FALSE, <<>>, <<>>, <<>>)

\* a compatible summary embedded into its producer
OutEmbedding(name) ==
    OpNode(OutName(name), <<"S">>, Undefined, Undefined, TRUE,
           <<[name |-> name, isControlDependency |-> FALSE]>>, <<>>, <<>>)

\* the attributes a node is given: PA is plain, PC declares a device and an
\* XLA cluster and is incompatible, PB is of another op, declares a device and
\* has one embedding each way
ProfileNode(name, profile) ==
    CASE profile = "PA" -> PlainNode(name)
      [] profile = "PC" -> OpNode(name, <<"A">>, "d0", "x0", FALSE, <<>>, <<>>, <<>>)
      [] profile = "PB" ->
            OpNode(name, <<"B">>, "d1", Undefined, TRUE,
                   <<[name |-> InName(name), isControlDependency |-> FALSE]>>,
                   <<InEmbedding(name)>>, <<OutEmbedding(name)>>)

\* the profile of the i-th node of a graph, one line per pattern
Patterns == {"plain", "declared", "mixed", "twoOps", "embedded"}

ProfileAt(pattern, i) ==
    CASE pattern = "plain" -> "PA"
      [] pattern = "declared" -> "PC"
      [] pattern = "mixed" -> IF i = 1 THEN "PC" ELSE "PA"
      [] pattern = "twoOps" -> IF i % 2 = 0 THEN "PB" ELSE "PA"
      [] pattern = "embedded" -> "PB"

\* numbered siblings, with a gap, an unnumbered one and one in a metanode
SeriesNames ==
    <<Str("f"), Numbered(Str("f"), 1), Numbered(Str("f"), 2), Numbered(Str("f"), 3),
      Numbered(Str("f"), 4), Under(Str("a"), Numbered(Str("f"), 1))>>

\* the names the series of these siblings can have
SeriesKeys ==
    {getSeriesNodeNameIds(Str("f"), <<>>, <<>>, lo, hi) : lo \in 0..3, hi \in 1..4}

\* seriesNodeMinSize and seriesMap: no entry, or every series preset; the
\* generalized patterns with no entry
SeriesParams ==
    {Params(2, EmptyMap, FALSE), Params(3, EmptyMap, FALSE), Params(0, EmptyMap, FALSE),
     Params(2, [k \in SeriesKeys |-> UNGROUP], FALSE),
     Params(3, [k \in SeriesKeys |-> GROUP], FALSE),
     Params(2, EmptyMap, TRUE)}

SeriesInputsOf(names) ==
    {[nodes |-> [i \in 1..Len(names) |-> ProfileNode(names[i], ProfileAt(pattern, i))],
      edges |-> <<>>,
      params |-> ps] :
        pattern \in Patterns, ps \in SeriesParams}

SeriesInputs == UNION {SeriesInputsOf(names) : names \in SubLists(SeriesNames, MaxNodes)}

\* four siblings and the edges between them an ordering is asked for: a node
\* reached twice, two cycles and a control edge
OrderNames == <<Str("p"), Str("q"), Str("r"), Str("s")>>

OrderEdges ==
    <<BaseEdge(Str("p"), Str("q"), FALSE), BaseEdge(Str("p"), Str("r"), FALSE),
      BaseEdge(Str("q"), Str("s"), FALSE), BaseEdge(Str("r"), Str("q"), FALSE),
      BaseEdge(Str("q"), Str("r"), FALSE), BaseEdge(Str("s"), Str("p"), FALSE),
      BaseEdge(Str("p"), Str("s"), TRUE)>>

OrderInputs ==
    {[nodes |-> [i \in 1..Len(OrderNames) |-> PlainNode(OrderNames[i])],
      edges |-> edges,
      params |-> Params(2, EmptyMap, FALSE)] :
        edges \in SubLists(OrderEdges, MaxOrderEdges)}

\* the op of a sibling: B for a number with a leading zero, A for the others
SameIdNode(name) ==
    IF name[Len(name) - 1] = "0"
    THEN OpNode(name, <<"B">>, Undefined, Undefined, TRUE, <<>>, <<>>, <<>>)
    ELSE PlainNode(name)

\* siblings of two ops whose numbers are the same but for a leading zero:
\* f_1, f_2, f_01, f_02
SameIdInputs ==
    {[nodes |-> [i \in 1..Len(names) |-> SameIdNode(names[i])],
      edges |-> <<>>,
      params |-> Params(2, EmptyMap, FALSE)] :
        names \in SubLists(<<Numbered(Str("f"), 1), Numbered(Str("f"), 2),
                              <<"f", "_", "0", "1">>, <<"f", "_", "0", "2">>>>,
                            MaxSameIdNodes)}

\* the library function g, its body below the root and one level further
\* down, and nodes that call it: before the body, after it, and within it
LibraryNodes ==
    <<OpNode(Str("c"), Str("g"), Undefined, Undefined, TRUE, <<>>, <<>>, <<>>),
      PlainNode(Under(FUNCTION_LIBRARY_NODE_PREFIX \o Str("g"), Str("x"))),
      OpNode(Str("d"), Str("g"), Undefined, Undefined, TRUE, <<>>, <<>>, <<>>),
      OpNode(Under(Under(FUNCTION_LIBRARY_NODE_PREFIX \o Str("g"), Str("h")), Str("y")),
             Str("g"), Undefined, Undefined, TRUE, <<>>, <<>>, <<>>),
      PlainNode(Under(Str("a"), Under(FUNCTION_LIBRARY_NODE_PREFIX \o Str("g"), Str("z"))))>>

LibraryInputs ==
    {[nodes |-> nodes, edges |-> <<>>, params |-> Params(2, EmptyMap, FALSE)] :
        nodes \in SubLists(LibraryNodes, MaxNodes)}

\* siblings of one op with two numbers in their names
TwoNumberNames ==
    <<<<"f", "1", "_", "1">>, <<"f", "1", "_", "2">>, <<"f", "2", "_", "1">>,
      <<"f", "1", "_", "3">>>>

TwoNumberInputs ==
    {[nodes |-> [i \in 1..Len(names) |-> PlainNode(names[i])],
      edges |-> <<>>,
      params |-> Params(2, EmptyMap, TRUE)] :
        names \in SubLists(TwoNumberNames, MaxNodes)}

\* two members of a series and a sibling that is none, with edges between them
SiblingInputs ==
    TreeInputsOf(<<Numbered(Str("f"), 1), Numbered(Str("f"), 2), Str("g")>>)

Inputs ==
    TreeInputs \cup SeriesInputs \cup OrderInputs \cup SameIdInputs \cup LibraryInputs
        \cup TwoNumberInputs \cup SiblingInputs

-----------------------------------------------------------------------------
(* build and the queries, as steps *)

Idle == [op |-> "none", outcome |-> "none"]

\* no call of getTopologicalOrdering is in its loop
NoTraversal ==
    [name |-> NoName, queue |-> <<>>, successors |-> EmptyMap, position |-> 0,
     expanded |-> <<>>]

\* the last call was not getIncompatibleOps
NoReturn == [hierarchyParams |-> <<>>, nodes |-> <<>>]

Init ==
    \E input \in Inputs :
        /\ graph = [nodes |-> input.nodes, edges |-> input.edges]
        /\ params = input.params
        /\ pc = "Adding nodes"
        /\ phases = <<>>
        /\ index = NewIndex
        /\ libraryFunctions = EmptyMap
        /\ orderings = EmptyMap
        /\ devices = <<>>
        /\ xlaClusters = <<>>
        /\ seriesNames = EmptyMap
        /\ delivered = FALSE
        /\ queries = 0
        /\ lastCall = Idle
        /\ traversal = NoTraversal
        /\ created = <<>>
        /\ asked = NoName
        /\ returned = NoReturn

\* the task 'Adding nodes' of build has run
AddNodesDone(built) ==
    /\ index' = built.index
    /\ libraryFunctions' = built.libraryFunctions

\* the task 'Adding nodes' of build
AddNodes ==
    /\ pc = "Adding nodes"
    /\ AddNodesDone(addNodes(index, graph))
    /\ devices' = KeysOf([i \in 1..Len(graph.nodes) |-> graph.nodes[i].device])
    /\ xlaClusters' = KeysOf([i \in 1..Len(graph.nodes) |-> graph.nodes[i].xlaCluster])
    /\ phases' = Append(phases, "Adding nodes")
    /\ pc' = "Detect series"
    /\ UNCHANGED <<returned, asked, created, traversal, graph, params, orderings, seriesNames, delivered, queries, lastCall>>

\* runAsyncTask(msg, incProgressValue, task, ...): the promise of a task, which
\* fails when the task throws and else lets the chain go on
runAsyncTask(st, next) == IF st.failed THEN "rejected" ELSE next

\* as DetectSeriesDone, but the promise resolves next
DetectSeriesDoneLast(st) ==
    /\ index' = st.index
    /\ seriesNames' = st.seriesNames
    /\ params' = [params EXCEPT !.seriesMap = st.map]
    /\ phases' = IF st.failed THEN phases ELSE Append(phases, "Detect series")
    /\ pc' = IF st.failed THEN "rejected" ELSE "resolve"

\* the task 'Detect series' of build has run, or has thrown
DetectSeriesDone(st) ==
    /\ index' = st.index
    /\ seriesNames' = st.seriesNames
    /\ params' = [params EXCEPT !.seriesMap = st.map]
    /\ phases' = IF st.failed THEN phases ELSE Append(phases, "Detect series")
    /\ pc' = runAsyncTask(st, "Adding edges")

\* the task 'Detect series' of build
DetectSeries ==
    /\ pc = "Detect series"
    /\ DetectSeriesDone(
           IF params.seriesNodeMinSize > 0
           THEN groupSeries([index |-> index, seriesNames |-> seriesNames,
                             map |-> params.seriesMap, failed |-> FALSE],
                            ROOT_NAME, params.seriesNodeMinSize,
                            params.useGeneralizedSeriesPatterns)
           ELSE [index |-> index, seriesNames |-> seriesNames,
                 map |-> params.seriesMap, failed |-> FALSE])
    /\ UNCHANGED <<returned, asked, created, traversal, graph, libraryFunctions, orderings, devices, xlaClusters, delivered,
                   queries, lastCall>>

\* as AddEdgesDone, but the promise resolves though the task has thrown
AddEdgesDoneCaught(st) ==
    /\ index' = st.index
    /\ phases' = IF st.failed THEN phases ELSE Append(phases, "Adding edges")
    /\ pc' = "resolve"

\* the task 'Adding edges' of build has run, or has thrown
AddEdgesDone(st) ==
    /\ index' = st.index
    /\ phases' = IF st.failed THEN phases ELSE Append(phases, "Adding edges")
    /\ pc' = runAsyncTask(st, "resolve")

\* the task 'Adding edges' of build
AddEdges ==
    /\ pc = "Adding edges"
    /\ AddEdgesDone(addEdges(index, graph))
    /\ UNCHANGED <<returned, asked, created, traversal, graph, params, libraryFunctions, orderings, devices, xlaClusters,
                   seriesNames, delivered, queries, lastCall>>

\* the last then of build: the promise resolves with h
Resolve ==
    /\ pc = "resolve"
    /\ delivered' = TRUE
    /\ pc' = "done"
    /\ UNCHANGED <<returned, asked, created, traversal, graph, params, phases, index, libraryFunctions, orderings, devices,
                   xlaClusters, seriesNames, queries, lastCall>>

\* a name the index may or may not hold
QueryNames == DOMAIN index \cup {EmbeddedOnly}

CanQuery == delivered /\ queries < MaxQueries

Called(op, outcome) == [op |-> op, outcome |-> outcome]

\* an object a call created: what it is, whose, and the number of the call
Object(kind, name, call) == [kind |-> kind, name |-> name, call |-> call]

\* the bridgegraphs of the names, as entries of created
Bridgegraphs(names) ==
    [i \in 1..Len(names) |-> Object("bridgegraph", names[i], queries + 1)]

\* what a call leaves: the outcome, the index and the bridgegraphs it created
Returned(op, made) ==
    /\ lastCall' = Called(op, IF made.thrown THEN "throws" ELSE "returns")
    /\ index' = made.index
    /\ created' = created \o Bridgegraphs(made.created)

\* hierarchy.node(name): this.index[name], which is undefined for a name the
\* index lacks
GetNode ==
    /\ CanQuery
    /\ \E name \in QueryNames :
        /\ asked' = name
        /\ lastCall' = Called("node", IF name \in DOMAIN index THEN "returns"
                                      ELSE "undefined")
    /\ queries' = queries + 1
    /\ returned' = NoReturn
    /\ UNCHANGED <<created, traversal, graph, params, pc, phases, index, libraryFunctions,
                   orderings, devices, xlaClusters, seriesNames, delivered>>

\* as GetBridgegraph, but a node without a metagraph gets a bridgegraph too
GetBridgegraphOfAny ==
    /\ CanQuery
    /\ \E nodeName \in QueryNames :
        /\ asked' = nodeName
        /\ IF nodeName \notin DOMAIN index
           THEN /\ lastCall' = Called("getBridgegraph", "throws")
                /\ index' = index
                /\ created' = created
           ELSE Returned("getBridgegraph", getBridgegraph(index, nodeName))
    /\ queries' = queries + 1
    /\ returned' = NoReturn
    /\ UNCHANGED <<traversal, graph, params, pc, phases, libraryFunctions, orderings, devices,
                   xlaClusters, seriesNames, delivered>>

\* hierarchy.getBridgegraph(nodeName)
GetBridgegraph ==
    /\ CanQuery
    /\ \E nodeName \in QueryNames :
        /\ asked' = nodeName
        /\ IF nodeName \notin DOMAIN index
           THEN /\ lastCall' = Called("getBridgegraph", "throws")
                /\ index' = index
                /\ created' = created
           ELSE IF ~HasMetagraph(index[nodeName])
           THEN /\ lastCall' = Called("getBridgegraph", "null")
                /\ index' = index
                /\ created' = created
           ELSE Returned("getBridgegraph", getBridgegraph(index, nodeName))
    /\ queries' = queries + 1
    /\ returned' = NoReturn
    /\ UNCHANGED <<traversal, graph, params, pc, phases, libraryFunctions, orderings, devices,
                   xlaClusters, seriesNames, delivered>>

\* as GetTopologicalOrdering, but an ordering is made at every call
GetTopologicalOrderingAnew ==
    /\ CanQuery
    /\ \E nodeName \in QueryNames :
        /\ asked' = nodeName
        /\ IF nodeName \notin DOMAIN index
           THEN /\ lastCall' = Called("getTopologicalOrdering", "throws")
                /\ orderings' = orderings
                /\ created' = created
           ELSE IF ~index[nodeName].isGroupNode
           THEN /\ lastCall' = Called("getTopologicalOrdering", "null")
                /\ orderings' = orderings
                /\ created' = created
           ELSE /\ lastCall' = Called("getTopologicalOrdering", "returns")
                /\ orderings' = MapPut(orderings, nodeName,
                                       TopologicalOrdering(index[nodeName]))
                /\ created' = Append(created, Object("ordering", nodeName, queries + 1))
    /\ queries' = queries + 1
    /\ returned' = NoReturn
    /\ UNCHANGED <<traversal, graph, params, pc, phases, index, libraryFunctions, devices,
                   xlaClusters, seriesNames, delivered>>

\* hierarchy.getTopologicalOrdering(nodeName)
GetTopologicalOrdering ==
    /\ CanQuery
    /\ \E nodeName \in QueryNames :
        /\ asked' = nodeName
        /\ IF nodeName \notin DOMAIN index
           THEN /\ lastCall' = Called("getTopologicalOrdering", "throws")
                /\ orderings' = orderings
                /\ created' = created
           ELSE IF ~index[nodeName].isGroupNode
           THEN /\ lastCall' = Called("getTopologicalOrdering", "null")
                /\ orderings' = orderings
                /\ created' = created
           ELSE IF nodeName \in DOMAIN orderings
           THEN /\ lastCall' = Called("getTopologicalOrdering", "returns")
                /\ orderings' = orderings
                /\ created' = created
           ELSE /\ lastCall' = Called("getTopologicalOrdering", "returns")
                /\ orderings' = MapPut(orderings, nodeName,
                                       TopologicalOrdering(index[nodeName]))
                /\ created' = Append(created, Object("ordering", nodeName, queries + 1))
    /\ queries' = queries + 1
    /\ returned' = NoReturn
    /\ UNCHANGED <<traversal, graph, params, pc, phases, index, libraryFunctions, devices,
                   xlaClusters, seriesNames, delivered>>

\* joinAndAggregateStats(h, stats)
JoinAndAggregateStats ==
    /\ CanQuery
    /\ index' = joinAndAggregateStats(index)
    /\ LET names == leaves(index, ROOT_NAME)
       IN  /\ devices' = KeysOf([i \in 1..Len(names) |-> index[names[i]].device])
           /\ xlaClusters' = KeysOf([i \in 1..Len(names) |-> index[names[i]].xlaCluster])
    /\ lastCall' = Called("joinAndAggregateStats", "returns")
    /\ asked' = NoName
    /\ queries' = queries + 1
    /\ returned' = NoReturn
    /\ UNCHANGED <<created, traversal, graph, params, pc, phases, libraryFunctions, orderings, seriesNames,
                   delivered>>

\* the hierarchyParams a caller passes to getIncompatibleOps: none, those of
\* build as build left them, or those of build with every series ungrouped
ParamsGiven ==
    {<<>>, <<params>>,
     <<[params EXCEPT !.seriesMap = [name \in SeriesKeys |-> UNGROUP]]>>}

\* getIncompatibleOps(hierarchy, hierarchyParams)
GetIncompatibleOps ==
    /\ CanQuery
    /\ \E hierarchyParams \in ParamsGiven :
           returned' = [hierarchyParams |-> hierarchyParams,
                        nodes |-> getIncompatibleOps(index, hierarchyParams)]
    /\ lastCall' = Called("getIncompatibleOps", "returns")
    /\ asked' = NoName
    /\ queries' = queries + 1
    /\ UNCHANGED <<created, traversal, graph, params, pc, phases, index, libraryFunctions, orderings, devices,
                   xlaClusters, seriesNames, delivered>>

\* as GetPredecessors, but a name the index lacks has no predecessors
GetPredecessorsOfAny ==
    /\ CanQuery
    /\ \E nodeName \in QueryNames :
        /\ asked' = nodeName
        /\ IF nodeName \notin DOMAIN index
           THEN /\ lastCall' = Called("getPredecessors", "returns")
                /\ index' = index
                /\ created' = created
           ELSE Returned("getPredecessors", getPredecessors(index, nodeName))
    /\ queries' = queries + 1
    /\ returned' = NoReturn
    /\ UNCHANGED <<traversal, graph, params, pc, phases, libraryFunctions, orderings, devices,
                   xlaClusters, seriesNames, delivered>>

\* hierarchy.getPredecessors(nodeName)
GetPredecessors ==
    /\ CanQuery
    /\ \E nodeName \in QueryNames :
        /\ asked' = nodeName
        /\ IF nodeName \notin DOMAIN index
           THEN /\ lastCall' = Called("getPredecessors", "throws")
                /\ index' = index
                /\ created' = created
           ELSE Returned("getPredecessors", getPredecessors(index, nodeName))
    /\ queries' = queries + 1
    /\ returned' = NoReturn
    /\ UNCHANGED <<traversal, graph, params, pc, phases, libraryFunctions, orderings, devices,
                   xlaClusters, seriesNames, delivered>>

\* hierarchy.getSuccessors(nodeName)
GetSuccessors ==
    /\ CanQuery
    /\ \E nodeName \in QueryNames :
        /\ asked' = nodeName
        /\ IF nodeName \notin DOMAIN index
           THEN /\ lastCall' = Called("getSuccessors", "throws")
                /\ index' = index
                /\ created' = created
           ELSE Returned("getSuccessors", getSuccessors(index, nodeName))
    /\ queries' = queries + 1
    /\ returned' = NoReturn
    /\ UNCHANGED <<traversal, graph, params, pc, phases, libraryFunctions, orderings, devices,
                   xlaClusters, seriesNames, delivered>>

Next ==
    \/ AddNodes
    \/ DetectSeries
    \/ AddEdges
    \/ Resolve
    \/ GetNode
    \/ GetBridgegraph
    \/ GetTopologicalOrdering
    \/ JoinAndAggregateStats
    \/ GetIncompatibleOps
    \/ GetPredecessors
    \/ GetSuccessors

Spec == Init /\ [][Next]_vars

-----------------------------------------------------------------------------
(* getTopologicalOrdering, its loop taken one pass at a time *)

\* queue and successors as the loop finds them: the sources that are no
\* destinations, and the list of successors of every source
OrderingSeed(name, found, keys) ==
    [name |-> name,
     queue |-> SelectSeq(keys, LAMBDA k : k \notin found.destinations),
     successors |-> [k \in Range(keys) |-> DictGet(found.successors, k)],
     position |-> 0,
     expanded |-> <<>>]

\* getTopologicalOrdering(nodeName) for a group node that has no ordering yet,
\* up to the loop: this.orderings[nodeName] = {}
OrderingBegin ==
    /\ delivered
    /\ traversal.name = NoName
    /\ \E nodeName \in DOMAIN index :
        /\ index[nodeName].isGroupNode
        /\ nodeName \notin DOMAIN orderings
        /\ traversal' =
               OrderingSeed(nodeName,
                            OrderingEdges([successors |-> <<>>, destinations |-> {}],
                                          index[nodeName].metagraph.edges),
                            OrderingKeys(OrderingEdges([successors |-> <<>>,
                                                        destinations |-> {}],
                                                       index[nodeName].metagraph.edges).successors))
        /\ orderings' = MapPut(orderings, nodeName, EmptyMap)
        /\ created' = Append(created, Object("ordering", nodeName, queries + 1))
        /\ asked' = nodeName
    /\ UNCHANGED <<returned, graph, params, pc, phases, index, libraryFunctions, devices,
                   xlaClusters, seriesNames, delivered, queries, lastCall>>

\* a pass that leaves the entry of the head in successors
OrderingStepKeeping ==
    /\ traversal.name # NoName
    /\ traversal.queue # <<>>
    /\ traversal.position < MaxSteps
    /\ traversal' =
           [traversal EXCEPT
               !.queue = Tail(@) \o (IF Head(@) \in DOMAIN traversal.successors
                                      THEN traversal.successors[Head(@)] ELSE <<>>),
               !.position = @ + 1,
               !.expanded = IF Head(traversal.queue) \in DOMAIN traversal.successors
                            THEN Append(@, Head(traversal.queue)) ELSE @]
    /\ orderings' = [orderings EXCEPT ![traversal.name] =
                         MapPut(@, Head(traversal.queue), traversal.position)]
    /\ UNCHANGED <<returned, asked, created, graph, params, pc, phases, index, libraryFunctions, devices,
                   xlaClusters, seriesNames, delivered, queries, lastCall>>

\* one pass of the loop: the head of the queue is numbered, its successors
\* are pushed and its entry in successors is deleted
OrderingStep ==
    /\ traversal.name # NoName
    /\ traversal.queue # <<>>
    /\ traversal.position < MaxSteps
    /\ traversal' =
           [traversal EXCEPT
               !.queue = Tail(@) \o (IF Head(@) \in DOMAIN traversal.successors
                                      THEN traversal.successors[Head(@)] ELSE <<>>),
               !.successors = [n \in DOMAIN @ \ {Head(traversal.queue)} |-> @[n]],
               !.position = @ + 1,
               !.expanded = IF Head(traversal.queue) \in DOMAIN traversal.successors
                            THEN Append(@, Head(traversal.queue)) ELSE @]
    /\ orderings' = [orderings EXCEPT ![traversal.name] =
                         MapPut(@, Head(traversal.queue), traversal.position)]
    /\ UNCHANGED <<returned, asked, created, graph, params, pc, phases, index, libraryFunctions, devices,
                   xlaClusters, seriesNames, delivered, queries, lastCall>>

\* the queue is empty: return ordering
OrderingReturn ==
    /\ traversal.name # NoName
    /\ traversal.queue = <<>>
    /\ traversal' = NoTraversal
    /\ lastCall' = Called("getTopologicalOrdering", "returns")
    /\ UNCHANGED <<returned, asked, created, graph, params, pc, phases, index, libraryFunctions, orderings,
                   devices, xlaClusters, seriesNames, delivered, queries>>

OrderingNext ==
    \/ AddNodes
    \/ DetectSeries
    \/ AddEdges
    \/ Resolve
    \/ OrderingBegin
    \/ OrderingStep
    \/ OrderingReturn

\* the loop is synchronous code: a pass that can run does run
OrderingSpec == Init /\ [][OrderingNext]_vars /\ WF_vars(OrderingStep)

-----------------------------------------------------------------------------
(* Properties of the hierarchy build delivers *)

\* the hierarchy as build hands it over, no query made on it yet
Built == delivered /\ queries = 0

FlatNames == {graph.nodes[i].name : i \in 1..Len(graph.nodes)}

Containers == {n \in DOMAIN index : index[n].isGroupNode}

\* the node itself and every node reached from it by parent pointers
Anc(n) == Range(AncestorPath(index, n))

\* the lowest container that holds both nodes
CommonContainer(a, b) ==
    CHOOSE c \in (Anc(a) \cap Anc(b)) : \A d \in (Anc(a) \cap Anc(b)) : d \in Anc(c)

\* the child of the container on the way down to the node
ChildToward(c, n) == CHOOSE x \in Anc(n) : index[x].parentNode = c

\* the raw edges both endpoints of which are nodes of the flat graph
Resolvable == {i \in 1..Len(graph.edges) :
                  graph.edges[i].v \in FlatNames /\ graph.edges[i].w \in FlatNames}

\* how often a list holds an element
Occurrences(list, x) == Cardinality({j \in 1..Len(list) : list[j] = x})

\* the Metaedges of all metagraphs whose base-edge list holds the raw edge, each
\* as <<container, position in the edges of its metagraph>>
Holders(e) ==
    {h \in Containers \X (1..Len(graph.edges)) :
        /\ h[2] <= Len(index[h[1]].metagraph.edges)
        /\ Occurrences(index[h[1]].metagraph.edges[h[2]].baseEdgeList, e) > 0}

AttachedAtCommonContainer(e) ==
    /\ Cardinality(Holders(e)) = 1
    /\ \A h \in Holders(e) :
        /\ Occurrences(index[h[1]].metagraph.edges[h[2]].baseEdgeList, e) = 1
        /\ h[1] = CommonContainer(e.v, e.w)
        /\ index[h[1]].metagraph.edges[h[2]].v = ChildToward(h[1], e.v)
        /\ index[h[1]].metagraph.edges[h[2]].w = ChildToward(h[1], e.w)

\* C1: after build, every raw edge with both endpoints in the flat graph is in
\* the base-edge list of exactly one Metaedge of all metagraphs, once; that
\* Metaedge is in the metagraph of the lowest common container of the
\* endpoints and runs from the child of it above the source to the child of
\* it above the target.
C1_EdgeAtLowestCommonContainer ==
    Built => \A i \in Resolvable : AttachedAtCommonContainer(graph.edges[i])

\* a hierarchy with two raw edges attached in two containers, one a series
\* node and one a metanode below the root or the root
C1_Witness ==
    /\ Built
    /\ \E i, j \in Resolvable :
        \E hi \in Holders(graph.edges[i]), hj \in Holders(graph.edges[j]) :
            /\ hi[1] # hj[1]
            /\ index[hi[1]].type = "SERIES"
            /\ index[hj[1]].type = "META"

\* the children a non-control Metaedge of the container leads to from a child
RegularSuccessors(c, u) ==
    {index[c].metagraph.edges[k].w : k \in
        {k \in 1..Len(index[c].metagraph.edges) :
            /\ index[c].metagraph.edges[k].v = u
            /\ index[c].metagraph.edges[k].numRegularEdges > 0}}

\* the children a path of one or more non-control Metaedges leads to
RECURSIVE ReachedFrom(_, _, _)
ReachedFrom(c, frontier, seen) ==
    IF frontier \subseteq seen THEN seen
    ELSE ReachedFrom(c, UNION {RegularSuccessors(c, x) : x \in frontier \ seen},
                     seen \cup frontier)

Reaches(c, u, v) == v \in ReachedFrom(c, RegularSuccessors(c, u), {})

OnCycle(c, u) == Reaches(c, u, u)

\* C2: for every container and children u, v of it with a path of non-control
\* Metaedges from u to v, the ordering getTopologicalOrdering returned has
\* order[u] < order[v], unless the children lie on a cycle.
C2_OrderingFollowsPaths ==
    \A c \in DOMAIN orderings :
        \A u, v \in Range(index[c].metagraph.nodes) :
            (Reaches(c, u, v) /\ ~OnCycle(c, u) /\ ~OnCycle(c, v))
                => /\ u \in DOMAIN orderings[c]
                   /\ v \in DOMAIN orderings[c]
                   /\ orderings[c][u] < orderings[c][v]

\* the containers whose bridgegraph getBridgegraph has made
Bridged == {c \in Containers : index[c].bridgegraph # <<>>}

StrictlyUnder(n, c) == n # c /\ c \in Anc(n)

\* the raw edges that cross the boundary of the container
Crossing(c) ==
    {i \in Resolvable : StrictlyUnder(graph.edges[i].v, c) # StrictlyUnder(graph.edges[i].w, c)}

\* the node that stands for an outside endpoint: the child, above the endpoint,
\* of the lowest container that holds both the container and the endpoint
OtherSide(c, n) == ChildToward(CommonContainer(c, n), n)

\* the positions of the Metaedges of the bridgegraph that hold the raw edge
BridgeHolders(c, e) ==
    {k \in 1..Len(index[c].bridgegraph[1].edges) :
        Occurrences(index[c].bridgegraph[1].edges[k].baseEdgeList, e) > 0}

\* the Metaedge is the one the raw edge belongs to in the bridgegraph
BridgesAt(c, e, metaedge) ==
    /\ Occurrences(metaedge.baseEdgeList, e) = 1
    /\ metaedge.inbound = <<StrictlyUnder(e.w, c)>>
    /\ metaedge.v = IF StrictlyUnder(e.w, c) THEN OtherSide(c, e.v) ELSE ChildToward(c, e.v)
    /\ metaedge.w = IF StrictlyUnder(e.w, c) THEN ChildToward(c, e.w) ELSE OtherSide(c, e.w)

\* C3: the bridgegraph getBridgegraph makes for a container of a built
\* hierarchy holds each raw edge with exactly one endpoint strictly under the
\* container in exactly one Metaedge, once; that Metaedge joins the child of
\* the container above the inside endpoint with the node on the other side,
\* and is inbound exactly when the inside endpoint is the target; no other raw
\* edge is in the bridgegraph, and the bridgegraph of the root has no edge.
C3_BridgegraphHoldsCrossingEdges ==
    \A c \in Bridged :
        /\ \A i \in Crossing(c) :
            /\ Cardinality(BridgeHolders(c, graph.edges[i])) = 1
            /\ \A k \in BridgeHolders(c, graph.edges[i]) :
                BridgesAt(c, graph.edges[i], index[c].bridgegraph[1].edges[k])
        /\ \A k \in 1..Len(index[c].bridgegraph[1].edges) :
            \A e \in Range(index[c].bridgegraph[1].edges[k].baseEdgeList) :
                \E i \in Crossing(c) : graph.edges[i] = e
        /\ c = ROOT_NAME => index[c].bridgegraph[1].edges = <<>>

\* a series node with an outbound Metaedge in its bridgegraph, and a container
\* two levels below the root with an inbound Metaedge that holds two raw edges
C3_Witness ==
    /\ lastCall = Called("getBridgegraph", "returns")
    /\ \E c \in Bridged :
        /\ index[c].type = "SERIES"
        /\ \E k \in 1..Len(index[c].bridgegraph[1].edges) :
            index[c].bridgegraph[1].edges[k].inbound = <<FALSE>>
    /\ \E c \in Bridged :
        /\ index[c].parentNode \notin {NoName, ROOT_NAME}
        /\ \E k \in 1..Len(index[c].bridgegraph[1].edges) :
            /\ index[c].bridgegraph[1].edges[k].inbound = <<TRUE>>
            /\ Len(index[c].bridgegraph[1].edges[k].baseEdgeList) = 2

\* the container the tree phase must have put the node of the path into
PrefixParent(path, j) == IF j = 1 THEN ROOT_NAME ELSE path[j - 1]

\* the metanodes of the proper prefixes of the name, chained from the root
\* down to the node
PlacedByName(name) ==
    /\ \A j \in 1..(Len(getHierarchicalPath(name)) - 1) :
        /\ getHierarchicalPath(name)[j] \in DOMAIN index
        /\ index[getHierarchicalPath(name)[j]].type = "META"
        /\ index[getHierarchicalPath(name)[j]].parentNode
               = PrefixParent(getHierarchicalPath(name), j)
    /\ name \in DOMAIN index
    /\ index[name].parentNode
           = PrefixParent(getHierarchicalPath(name), Len(getHierarchicalPath(name)))

Metanodes == {n \in DOMAIN index : index[n].type = "META"}

\* C4: after the tree phase, every flat node with the segments s1/.../sk has a
\* Metanode in the index for each proper prefix s1, s1/s2, ..., each the
\* parent of the next, the parent of the leaf being the deepest one (the root
\* when k = 1); every Metanode other than the root has a flat node below it.
C4_TreeFollowsNames ==
    pc = "Detect series" =>
        /\ \A name \in FlatNames : PlacedByName(name)
        /\ \A m \in Metanodes \ {ROOT_NAME} : \E name \in FlatNames : StrictlyUnder(name, m)

\* the tree of three flat nodes: one of three segments, one of two segments
\* under the same first segment, and one of a single segment
C4_Witness ==
    /\ pc = "Detect series"
    /\ \E x, y, z \in FlatNames :
        /\ Len(getHierarchicalPath(x)) = 3
        /\ Len(getHierarchicalPath(y)) = 2
        /\ getHierarchicalPath(y)[1] = getHierarchicalPath(x)[1]
        /\ Len(getHierarchicalPath(z)) = 1
        /\ index[z].parentNode = ROOT_NAME
        /\ Len(index[getHierarchicalPath(x)[1]].metagraph.nodes) = 2

\* the end of a phase of build
PhaseEnded == pc \in {"Detect series", "Adding edges", "resolve"}

\* the nodes that are embeddings of a node of the index
Embeddings ==
    UNION {{e.name : e \in Range(index[n].inEmbeddings) \cup Range(index[n].outEmbeddings)} :
              n \in DOMAIN index}

\* the containers that list the node in their metagraph
ListedIn(n) == {c \in Containers : Occurrences(index[c].metagraph.nodes, n) > 0}

\* the parent pointers lead from the node to the root, no node met twice
RECURSIVE ClimbsToRoot(_, _)
ClimbsToRoot(n, seen) ==
    IF n = ROOT_NAME THEN TRUE
    ELSE IF n \in seen \/ n \notin DOMAIN index THEN FALSE
    ELSE ClimbsToRoot(index[n].parentNode, seen \cup {n})

\* C5: at the end of each phase of build the containment is a tree rooted at
\* the root: each name in the metagraph of a container is a node of the index
\* whose parent is that container, each node other than the root and the
\* embeddings is listed by exactly one container, once, and the parent
\* pointers lead from every node to the root without meeting a node twice.
C5_ContainmentIsTree ==
    PhaseEnded =>
        /\ \A c \in Containers : \A n \in Range(index[c].metagraph.nodes) :
            n \in DOMAIN index /\ index[n].parentNode = c
        /\ \A n \in DOMAIN index \ ({ROOT_NAME} \cup Embeddings) :
            /\ Cardinality(ListedIn(n)) = 1
            /\ \A c \in ListedIn(n) : Occurrences(index[c].metagraph.nodes, n) = 1
        /\ \A n \in DOMAIN index : ClimbsToRoot(n, {})

\* the edge phase has ended on a hierarchy with a series node spliced into a
\* metanode below the root
C5_Witness ==
    /\ pc = "resolve"
    /\ \E s \in Containers :
        /\ index[s].type = "SERIES"
        /\ index[s].parentNode \notin {NoName, ROOT_NAME}
        /\ Len(index[s].metagraph.nodes) >= 2

\* the tasks of build, in the order of the chain of promises
PhaseOrder == <<"Adding nodes", "Detect series", "Adding edges">>

SeriesNodes == {n \in DOMAIN index : index[n].type = "SERIES"}

\* C6: the phases of build run in the order tree construction, series
\* detection, edge construction: a phase starts when the phases before it
\* have completed and none after it has, the index shows no series node
\* before series detection and no Metaedge before edge construction, and the
\* hierarchy is delivered only when all three have completed.
C6_PhasesInOrder ==
    /\ \E k \in 0..3 : phases = SubSeq(PhaseOrder, 1, k)
    /\ pc = "Adding nodes" => phases = <<>> /\ index = NewIndex
    /\ pc = "Detect series" =>
        phases = SubSeq(PhaseOrder, 1, 1) /\ FlatNames \subseteq DOMAIN index
    /\ pc \in {"Adding nodes", "Detect series"} => SeriesNodes = {}
    /\ pc = "Adding edges" => phases = SubSeq(PhaseOrder, 1, 2)
    /\ pc \in {"Adding nodes", "Detect series", "Adding edges"} =>
        \A c \in Containers : index[c].metagraph.edges = <<>>
    /\ pc \in {"resolve", "done"} => phases = PhaseOrder
    /\ delivered => pc = "done"

\* a hierarchy delivered that has a series node and a Metaedge
C6_Witness ==
    /\ delivered
    /\ phases = PhaseOrder
    /\ SeriesNodes # {}
    /\ \E c \in Containers : index[c].metagraph.edges # <<>>

\* the state series detection leaves, the numeric-suffix policy in use
NumericDetected ==
    /\ pc = "Adding edges"
    /\ params.seriesNodeMinSize > 0
    /\ ~params.useGeneralizedSeriesPatterns

\* prefix, id and suffix of a flat node under the numeric-suffix policy
PartsOf(n) == NumericParts(MatchNumericSuffix(LeafOf(n)), n)

\* the flat nodes of the candidate group of a flat node: the same op, prefix,
\* suffix and parent path
GroupOf(n) ==
    {m \in FlatNames :
        /\ index[m].op = index[n].op
        /\ ParentOf(m) = ParentOf(n)
        /\ PartsOf(m).prefix = PartsOf(n).prefix
        /\ PartsOf(m).suffix = PartsOf(n).suffix}

GroupIds(n) == {PartsOf(m).id : m \in GroupOf(n)}

\* the first and the last id of the maximal run of consecutive ids of the
\* group that holds the id of the node
RunFirst(n) ==
    CHOOSE lo \in GroupIds(n) :
        /\ lo <= PartsOf(n).id
        /\ \A k \in lo..PartsOf(n).id : k \in GroupIds(n)
        /\ (lo - 1) \notin GroupIds(n)

RunLast(n) ==
    CHOOSE hi \in GroupIds(n) :
        /\ hi >= PartsOf(n).id
        /\ \A k \in PartsOf(n).id..hi : k \in GroupIds(n)
        /\ (hi + 1) \notin GroupIds(n)

\* the name of the series of the run, none for a run of a single member
RunSeries(n) ==
    IF RunFirst(n) = RunLast(n) THEN NoName
    ELSE getSeriesNodeNameIds(PartsOf(n).prefix, PartsOf(n).suffix, ParentOf(n),
                              RunFirst(n), RunLast(n))

\* the series node holds the members of the run, in the order of their ids
HoldsRun(s) ==
    /\ Range(index[s].metagraph.nodes) = {n \in FlatNames : RunSeries(n) = s}
    /\ \A j \in 1..Len(index[s].metagraph.nodes) :
        /\ index[s].ids[j] = PartsOf(index[s].metagraph.nodes[j]).id
        /\ j > 1 => index[s].ids[j] = index[s].ids[j - 1] + 1

\* C7: under the numeric-suffix policy the series of a candidate group (the
\* same op, prefix, suffix and parent path) are the maximal runs of consecutive
\* ids of the group with two members or more, named by the first and the last
\* id: every member of such a run is owned by the series of the run, a member
\* of no such run by none, and a series node spliced holds the run.
C7_SeriesAreMaximalRuns ==
    NumericDetected =>
        /\ \A n \in FlatNames : index[n].owningSeries = RunSeries(n)
        /\ \A s \in SeriesNodes : HoldsRun(s)

\* the flat nodes a series owns, and the series that own a flat node
OwnedBy(idx, s) == {n \in FlatNames : idx[n].owningSeries = s}

DetectedIn(idx) == {idx[n].owningSeries : n \in FlatNames} \ {NoName}

\* the members of the series are the children of their container they were
Unspliced(idx, idxAfter, s) ==
    /\ s \notin DOMAIN idxAfter
    /\ \A n \in OwnedBy(idxAfter, s) :
        /\ idxAfter[n].parentNode = idx[n].parentNode
        /\ GraphHasNode(idxAfter[idx[n].parentNode].metagraph, n)

\* the members of the series are the children of the series node
Spliced(idxAfter, s) ==
    /\ s \in DOMAIN idxAfter
    /\ idxAfter[s].type = "SERIES"
    /\ \A n \in OwnedBy(idxAfter, s) :
        /\ idxAfter[n].parentNode = s
        /\ GraphHasNode(idxAfter[s].metagraph, n)

\* what series detection makes of the series map and of one detected series
SeriesMapRespected(idx, map, idxAfter, mapAfter, threshold, s) ==
    /\ (s \notin DOMAIN map /\ Cardinality(OwnedBy(idxAfter, s)) < threshold) =>
        /\ s \in DOMAIN mapAfter
        /\ mapAfter[s] = UNGROUP
        /\ Unspliced(idx, idxAfter, s)
    /\ (s \notin DOMAIN map /\ Cardinality(OwnedBy(idxAfter, s)) >= threshold) =>
        s \notin DOMAIN mapAfter
    /\ (s \in DOMAIN map /\ map[s] = UNGROUP) => Unspliced(idx, idxAfter, s)
    /\ (s \in DOMAIN map /\ map[s] = GROUP) => Spliced(idxAfter, s)

SeriesMapKept(map, mapAfter) ==
    \A k \in DOMAIN map : k \in DOMAIN mapAfter /\ mapAfter[k] = map[k]

\* C8: series detection leaves every entry of the series map it is given as
\* it is; a detected series the map lacks with fewer members than
\* seriesNodeMinSize gets the entry UNGROUP and is not spliced; a series the
\* map holds as UNGROUP is not spliced whatever its size, its members staying
\* children of the container with owningSeries set; a series the map holds as
\* GROUP is spliced, also with fewer members than the threshold.
C8_SeriesMapRespected ==
    [][(pc = "Detect series" /\ pc' = "Adding edges") =>
          /\ SeriesMapKept(params.seriesMap, params'.seriesMap)
          /\ \A s \in DetectedIn(index') :
              SeriesMapRespected(index, params.seriesMap, index', params'.seriesMap,
                                 params.seriesNodeMinSize, s)]_vars

\* a series of two members spliced under the threshold 3, the map holding
\* GROUP for it
C8_Witness ==
    /\ pc = "Adding edges"
    /\ params.seriesNodeMinSize = 3
    /\ \E s \in SeriesNodes :
        /\ s \in DOMAIN params.seriesMap
        /\ params.seriesMap[s] = GROUP
        /\ Cardinality(OwnedBy(index, s)) = 2
        /\ Len(index[s].metagraph.nodes) = 2

RECURSIVE SumSeq(_)
SumSeq(s) == IF s = <<>> THEN 0 ELSE Head(s) + SumSeq(Tail(s))

\* 1 for a true condition
One(b) == IF b THEN 1 ELSE 0

\* how many of the embeddings are compatible, or are not
CountWhere(embeddings, compatible) ==
    Cardinality({j \in 1..Len(embeddings) : embeddings[j].compatible = compatible})

\* what a child adds to the counts of its container
ChildCardinality(x) == IF index[x].isGroupNode THEN index[x].cardinality ELSE 1

ChildDevice(x, d) ==
    IF index[x].isGroupNode THEN HistGet(index[x].deviceHistogram, d)
    ELSE One(index[x].device = d)

ChildCluster(x, k) ==
    IF index[x].isGroupNode THEN HistGet(index[x].xlaClusterHistogram, k)
    ELSE One(index[x].xlaCluster = k)

ChildCompatible(x) ==
    IF index[x].isGroupNode THEN index[x].compatibilityHistogram.compatible
    ELSE One(index[x].compatible) + CountWhere(index[x].inEmbeddings, TRUE)
             + CountWhere(index[x].outEmbeddings, TRUE)

ChildIncompatible(x) ==
    IF index[x].isGroupNode THEN index[x].compatibilityHistogram.incompatible
    ELSE One(~index[x].compatible) + CountWhere(index[x].inEmbeddings, FALSE)
             + CountWhere(index[x].outEmbeddings, FALSE)

ChildrenOf(c) == index[c].metagraph.nodes

\* the devices and the XLA clusters the flat nodes declare or a histogram names
DeviceNames(c) ==
    ({index[n].device : n \in FlatNames} \ {Undefined}) \cup DOMAIN index[c].deviceHistogram

ClusterNames(c) ==
    ({index[n].xlaCluster : n \in FlatNames} \ {Undefined})
        \cup DOMAIN index[c].xlaClusterHistogram

SumsChildren(c) ==
    /\ index[c].cardinality
           = SumSeq([j \in 1..Len(ChildrenOf(c)) |-> ChildCardinality(ChildrenOf(c)[j])])
    /\ \A d \in DeviceNames(c) :
        HistGet(index[c].deviceHistogram, d)
            = SumSeq([j \in 1..Len(ChildrenOf(c)) |-> ChildDevice(ChildrenOf(c)[j], d)])
    /\ \A k \in ClusterNames(c) :
        HistGet(index[c].xlaClusterHistogram, k)
            = SumSeq([j \in 1..Len(ChildrenOf(c)) |-> ChildCluster(ChildrenOf(c)[j], k)])
    /\ index[c].compatibilityHistogram.compatible
           = SumSeq([j \in 1..Len(ChildrenOf(c)) |-> ChildCompatible(ChildrenOf(c)[j])])
    /\ index[c].compatibilityHistogram.incompatible
           = SumSeq([j \in 1..Len(ChildrenOf(c)) |-> ChildIncompatible(ChildrenOf(c)[j])])

\* C9: in the hierarchy build delivers, series spliced, the cardinality and
\* the device, XLA-cluster and compatibility histograms of every container
\* are the sums of the same over its children, a leaf counting 1 for the
\* device and the cluster it declares and 1 compatibility entry for itself
\* and for each of its embeddings.
C9_CountsSumChildren == Built => \A c \in Containers : SumsChildren(c)

\* a series node of two members with a device and an embedding each way, next
\* to a third child of the root
C9_Witness ==
    /\ Built
    /\ index[ROOT_NAME].cardinality = 3
    /\ \E s \in SeriesNodes :
        /\ index[s].cardinality = 2
        /\ HistGet(index[s].deviceHistogram, "d1") = 2
        /\ index[s].compatibilityHistogram = [compatible |-> 4, incompatible |-> 2]

\* the flat nodes below the container
LeavesUnder(c) == {n \in FlatNames : StrictlyUnder(n, c)}

\* the same as a list, in the order of graph.nodes
SortedLeaves(c) ==
    SelectSeq([i \in 1..Len(graph.nodes) |-> graph.nodes[i].name],
              LAMBDA n : n \in LeavesUnder(c))

\* the histogram counts, name by name, the values the leaves declare
CountsDeclared(hist, declared) ==
    \A name \in (DOMAIN hist \cup (Range(declared) \ {Undefined})) :
        HistGet(hist, name)
            = Cardinality({j \in 1..Len(declared) : declared[j] = name})

\* the value of a field of the leaves below a container, leaf by leaf
DevicesUnder(c) ==
    [j \in 1..Len(SortedLeaves(c)) |-> index[SortedLeaves(c)[j]].device]

ClustersUnder(c) ==
    [j \in 1..Len(SortedLeaves(c)) |-> index[SortedLeaves(c)[j]].xlaCluster]

\* C10: after every call of joinAndAggregateStats on a built hierarchy, the
\* first or a repeated one, the device histogram and the XLA-cluster
\* histogram of every container count, name by name, the leaves below the
\* container that declare the name.
C10_RollupCountsLeaves ==
    (delivered /\ lastCall.op = "joinAndAggregateStats") =>
        \A c \in Containers :
            /\ CountsDeclared(index[c].deviceHistogram, DevicesUnder(c))
            /\ CountsDeclared(index[c].xlaClusterHistogram, ClustersUnder(c))

\* C11: the mapping getTopologicalOrdering returned for a container, with or
\* without cycles among its non-control Metaedges, has an integer entry for
\* every child of the container.
C11_OrderingIsTotal ==
    \A c \in DOMAIN orderings :
        \A u \in Range(index[c].metagraph.nodes) :
            u \in DOMAIN orderings[c] /\ orderings[c][u] \in Nat


\* the names whose successor list the running loop has pushed, each once
ExpandedOnce ==
    \A i, j \in 1..Len(traversal.expanded) :
        traversal.expanded[i] = traversal.expanded[j] => i = j

\* C12: the loop of getTopologicalOrdering ends for every container metagraph,
\* cycles among its non-control Metaedges included: the successor list of a
\* child is pushed at most once, the number of passes stays within the sources
\* and their successors, and the work queue becomes empty.
C12_OrderingTerminates ==
    /\ [](ExpandedOnce)
    /\ [](traversal.queue # <<>> => traversal.position < MaxSteps)
    /\ (traversal.name # NoName) ~> (traversal.name # NoName /\ traversal.queue = <<>>)

\* a loop that ended on a container with a cycle, a child of which was taken
\* from the queue twice
C12_Witness ==
    /\ traversal.name # NoName
    /\ traversal.queue = <<>>
    /\ \E u \in DOMAIN orderings[traversal.name] : OnCycle(traversal.name, u)
    /\ traversal.position > Cardinality(DOMAIN orderings[traversal.name])


\* what the hierarchy holds for an object the queries created
Cached(object) ==
    IF object.kind = "ordering" THEN orderings[object.name]
    ELSE index[object.name].bridgegraph

\* the object of a kind that a name has: at most one entry of created
CreatedOnce(log) ==
    \A i, j \in 1..Len(log) :
        log[i].kind = log[j].kind /\ log[i].name = log[j].name => i = j

\* C13: a later call of getTopologicalOrdering, and of getBridgegraph, for a
\* container returns the object the first call returned, with the content it
\* had, whatever queries and rollups came in between: no step creates a second
\* ordering or bridgegraph for a container that has one, and none changes what
\* a created one holds.
C13_CachedObjectsKept ==
    [][/\ Len(created') >= Len(created)
       /\ \A i \in 1..Len(created) :
           /\ created'[i] = created[i]
           /\ Cached(created[i])' = Cached(created[i])
       /\ CreatedOnce(created')]_vars

\* a second call for a container: the first call made its ordering, and so
\* its bridgegraph, and the second returned without making one
C13_Witness ==
    /\ queries = 2
    /\ lastCall \in {Called("getTopologicalOrdering", "returns"),
                     Called("getBridgegraph", "returns")}
    /\ created # <<>>
    /\ \A i \in 1..Len(created) : created[i].call = 1
    /\ created[1].kind = (IF lastCall.op = "getBridgegraph" THEN "bridgegraph" ELSE "ordering")
    /\ Cached(created[1]) # <<>>
    /\ Cached(created[1]) # EmptyMap


\* the queries that read the hierarchy
ReadingQueries ==
    {"getBridgegraph", "getTopologicalOrdering", "getPredecessors", "getSuccessors",
     "getIncompatibleOps"}

\* the containers whose bridgegraph field the step writes
BridgegraphWritten == {c \in Containers : index'[c].bridgegraph # index[c].bridgegraph}

\* the entries of the orderings table the step writes
OrderingWritten ==
    {c \in DOMAIN orderings' : c \notin DOMAIN orderings \/ orderings'[c] # orderings[c]}

\* the step writes nothing of the hierarchy but caches of the node queried
WritesCachesOnly ==
    /\ DOMAIN index' = DOMAIN index
    /\ \A n \in DOMAIN index :
        /\ index'[n].name = index[n].name
        /\ index'[n].parentNode = index[n].parentNode
        /\ n \in Containers => index'[n].metagraph = index[n].metagraph
        /\ n \notin Containers => index'[n] = index[n]
    /\ DOMAIN orderings \subseteq DOMAIN orderings'
    /\ \E q \in DOMAIN index :
        /\ BridgegraphWritten \subseteq Anc(q)
        /\ OrderingWritten \subseteq {q}
    /\ UNCHANGED <<graph, libraryFunctions, devices, xlaClusters, seriesNames>>

NameQueries ==
    {"node", "getBridgegraph", "getPredecessors", "getSuccessors", "getTopologicalOrdering"}

\* the step is a call of a query with a name the index lacks
AbsentNameCall(ops) ==
    /\ queries' = queries + 1
    /\ lastCall'.op \in ops
    /\ asked' \notin DOMAIN index

\* the call left the hierarchy and its caches as they were
HierarchyKept ==
    UNCHANGED <<graph, index, orderings, created, libraryFunctions, devices, xlaClusters,
                seriesNames, delivered>>

\* C15 as claimed: node, getBridgegraph, getPredecessors, getSuccessors and
\* getTopologicalOrdering, called with a name the index lacks, each fail with
\* an error and leave the hierarchy and its caches unchanged.
C15_AbsentNameThrows ==
    [][AbsentNameCall(NameQueries) => (lastCall'.outcome = "throws" /\ HierarchyKept)]_vars

\* C15 as amended: getBridgegraph, getPredecessors, getSuccessors and
\* getTopologicalOrdering, called with a name the index lacks, each fail with
\* an error; node returns undefined without one; all five leave the hierarchy
\* and its caches unchanged.
C15_AbsentNameThrowsButNode ==
    [][/\ AbsentNameCall(NameQueries \ {"node"}) =>
              (lastCall'.outcome = "throws" /\ HierarchyKept)
       /\ AbsentNameCall({"node"}) => (lastCall'.outcome = "undefined" /\ HierarchyKept)]_vars

\* two calls with a name the index lacks, the second one of getPredecessors
\* on a hierarchy whose first call threw or returned undefined
C15_Witness ==
    /\ queries = 2
    /\ asked \notin DOMAIN index
    /\ asked # NoName
    /\ lastCall = Called("getPredecessors", "throws")
    /\ created = <<>>


\* the raw edges whose endpoints have ancestor paths that do not part: a
\* self-loop, or an edge between a node and one of its ancestors
Undivided ==
    {i \in Resolvable : \/ graph.edges[i].v \in Anc(graph.edges[i].w)
                        \/ graph.edges[i].w \in Anc(graph.edges[i].v)}

\* edge construction has run, to its end or to an error
EdgesTried ==
    /\ pc \in {"resolve", "done", "rejected"}
    /\ \E k \in 1..Len(phases) : phases[k] = "Detect series"

\* no Metaedge of a metagraph joins a node to itself
NoDegenerateMetaedge ==
    \A c \in Containers :
        \A k \in 1..Len(index[c].metagraph.edges) :
            index[c].metagraph.edges[k].v # index[c].metagraph.edges[k].w

\* C16: edge construction raises an error at a raw edge whose endpoints have
\* ancestor paths that never part (a self-loop, or an edge between a node and
\* its ancestor) and makes no Metaedge for it; no metagraph ever gets a
\* Metaedge from a node to itself.
C16_UndividedEdgeThrows ==
    /\ NoDegenerateMetaedge
    /\ (EdgesTried /\ Undivided # {}) =>
          /\ pc = "rejected"
          /\ ~delivered
          /\ \A k \in 1..Len(phases) : phases[k] # "Adding edges"
          /\ \A i \in Undivided : Holders(graph.edges[i]) = {}

\* edge construction threw at a self-loop that came after an edge it attached
C16_Witness ==
    /\ EdgesTried
    /\ pc = "rejected"
    /\ \E i \in Undivided : graph.edges[i].v = graph.edges[i].w
    /\ \E i \in Resolvable \ Undivided : Holders(graph.edges[i]) # {}


\* the raw edges an endpoint of which is no node of the flat graph
Unresolvable == (1..Len(graph.edges)) \ Resolvable

\* the container has a raw edge that is no control dependency attached in it
HoldsNonControlEdge(c) ==
    \E i \in Resolvable :
        /\ ~graph.edges[i].isControlDependency
        /\ CommonContainer(graph.edges[i].v, graph.edges[i].w) = c

\* C17: edge construction drops a raw edge with an endpoint that is no node of
\* the flat graph, such as the name of an embedding, and raises no error: no
\* Metaedge holds the edge, hasNonControlEdges of a container is set by the
\* other edges alone, and every other raw edge is attached.
C17_UnresolvableEdgeDropped ==
    (EdgesTried /\ Undivided = {}) =>
        /\ pc # "rejected"
        /\ \A i \in Unresolvable : Holders(graph.edges[i]) = {}
        /\ \A i \in Resolvable : Holders(graph.edges[i]) # {}
        /\ \A c \in Containers : index[c].hasNonControlEdges = HoldsNonControlEdge(c)

\* a hierarchy delivered for a graph with a dropped edge that is no control
\* dependency and an attached edge that is one: the root has no non-control
\* edges
C17_Witness ==
    /\ delivered
    /\ \E i \in Unresolvable : ~graph.edges[i].isControlDependency
    /\ \E i \in Resolvable : Holders(graph.edges[i]) # {}
    /\ ~index[ROOT_NAME].hasNonControlEdges


\* the step is a phase of build that threw: it ends without being completed
PhaseThrows ==
    /\ \E k \in 1..Len(PhaseOrder) : pc = PhaseOrder[k]
    /\ pc' # pc
    /\ phases' = phases

\* C18: a phase of build that throws makes the promise of build fail: no later
\* phase starts, nothing more is done to the hierarchy, and the caller is never
\* given it; a hierarchy is given only when all three phases have completed.
C18_ThrowingPhaseFailsBuild ==
    /\ [](pc = "rejected" => (~delivered /\ Len(phases) < Len(PhaseOrder) /\ ~ENABLED Next))
    /\ [](delivered => phases = PhaseOrder)
    /\ [][PhaseThrows => (pc' = "rejected" /\ ~delivered')]_vars

\* edge construction threw after the two phases before it completed
C18_Witness ==
    /\ pc = "rejected"
    /\ phases = <<"Adding nodes", "Detect series">>
    /\ Undivided # {}


\* the series nodes of the index whose metagraph holds the node
SeriesHolding(n) == {s \in SeriesNodes : GraphHasNode(index[s].metagraph, n)}

\* the series a node of the flat graph is owned by, if it is owned
OwnerOf(n) == IF n \in FlatNames /\ index[n].owningSeries # NoName
              THEN {index[n].owningSeries} ELSE {}

\* owningSeries of a node, once it is set, is what it was
OwnerKept ==
    \A n \in FlatNames \cap DOMAIN index :
        index[n].owningSeries # NoName =>
            /\ n \in DOMAIN index'
            /\ index'[n].owningSeries = index[n].owningSeries

\* C19: with series detected by numeric suffixes or anywhere in the name, a
\* node is in the metagraph of at most one SeriesNode, the one its owningSeries
\* names, and no step gives a node that has an owningSeries another one.
C19_OneSeriesPerNode ==
    /\ [](\A n \in DOMAIN index :
             /\ Cardinality(SeriesHolding(n)) <= 1
             /\ SeriesHolding(n) \subseteq OwnerOf(n))
    /\ [][OwnerKept]_vars

\* series found anywhere in the name: a series node with two members, which
\* it owns, in a hierarchy that was delivered and queried
C19_Witness ==
    /\ params.useGeneralizedSeriesPatterns
    /\ queries > 0
    /\ \E s \in SeriesNodes :
        /\ Len(index[s].metagraph.nodes) = 2
        /\ \A n \in Range(index[s].metagraph.nodes) : SeriesHolding(n) = {s}


\* the step is series detection that ran to its end
SeriesDetected == pc = "Detect series" /\ pc' = "Adding edges"

\* the node the name stands for after the step is the one it stood for before:
\* a leaf but for its parent and its owningSeries, a container by name and kind
SameNode(n) ==
    /\ n \in DOMAIN index'
    /\ IF index[n].isGroupNode
       THEN /\ index'[n].name = index[n].name
            /\ index'[n].type = index[n].type
            /\ index'[n].parentNode = index[n].parentNode
       ELSE [index'[n] EXCEPT !.parentNode = index[n].parentNode,
                              !.owningSeries = index[n].owningSeries] = index[n]

\* the series node of the index after the step stands in its container in the
\* place of its members
SplicedInto(s, c) ==
    /\ s \notin DOMAIN index
    /\ c \in DOMAIN index
    /\ index[c].isGroupNode
    /\ Occurrences(index'[c].metagraph.nodes, s) = 1
    /\ index'[s].metagraph.nodes # <<>>
    /\ \A n \in Range(index'[s].metagraph.nodes) :
        /\ n \in DOMAIN index
        /\ index[n].parentNode = c
        /\ Occurrences(index[c].metagraph.nodes, n) = 1
        /\ Occurrences(index'[c].metagraph.nodes, n) = 0
        /\ index'[n].parentNode = s
        /\ index'[n].owningSeries = s

\* C20: series detection adds each series it accepts to the index and to the
\* metagraph of the container, the container being its parent; each member
\* leaves the metagraph of the container, is a node of the metagraph of the
\* series node, has the series node as its parent and is under its name in the
\* index as before; no name of the index is given another node.
C20_SeriesSplicedInPlace ==
    [][SeriesDetected =>
          /\ \A n \in DOMAIN index : SameNode(n)
          /\ \A s \in DOMAIN index' \ DOMAIN index :
              /\ index'[s].type = "SERIES"
              /\ SplicedInto(s, index'[s].parentNode)]_vars

\* series detection has put a series node with two members into a metanode
\* below the root, in the place of the members
C20_Witness ==
    /\ pc = "Adding edges"
    /\ \E s \in SeriesNodes :
        /\ index[s].parentNode \notin {NoName, ROOT_NAME}
        /\ Len(index[s].metagraph.nodes) = 2
        /\ GraphHasNode(index[index[s].parentNode].metagraph, s)
        /\ \A n \in Range(index[s].metagraph.nodes) :
            ~GraphHasNode(index[index[s].parentNode].metagraph, n)


\* the last call was getIncompatibleOps
IncompatibleOpsReturned == delivered /\ lastCall.op = "getIncompatibleOps"

\* the series map passed to the last call of getIncompatibleOps marks the
\* series ungrouped
UngroupedAsGiven(s) ==
    /\ returned.hierarchyParams # <<>>
    /\ s \in DOMAIN returned.hierarchyParams[1].seriesMap
    /\ returned.hierarchyParams[1].seriesMap[s] = UNGROUP

\* the leaves of the hierarchy whose op is not compatible
IncompatibleLeaves ==
    {n \in FlatNames \cap DOMAIN index : index[n].type = "OP" /\ ~index[n].compatible}

\* the incompatible leaves the list of getIncompatibleOps holds themselves
ListedThemselves ==
    {n \in IncompatibleLeaves :
        index[n].owningSeries = NoName \/ UngroupedAsGiven(index[n].owningSeries)}

\* the embeddings of the leaves whose op is not compatible
IncompatibleEmbeddings ==
    UNION {{e.name : e \in {d \in Range(index[n].inEmbeddings) \cup Range(index[n].outEmbeddings) :
                               ~d.compatible}} :
              n \in {m \in FlatNames \cap DOMAIN index : index[m].type = "OP"}}

\* C21: in the list getIncompatibleOps returns, an incompatible leaf whose
\* owning series the series map passed does not mark ungrouped is replaced by
\* its owning series node, which the list holds once however many of its
\* members are incompatible; an incompatible leaf with no owning series, or
\* with one the map marks ungrouped, is in the list itself exactly once; and
\* every incompatible embedding of a leaf is in the list, whether its owner is
\* compatible or not.
C21_IncompatibleOpsListed ==
    IncompatibleOpsReturned =>
        /\ \A n \in IncompatibleLeaves \ ListedThemselves :
            /\ Occurrences(returned.nodes, index[n].owningSeries) = 1
            /\ Occurrences(returned.nodes, n) = 0
        /\ \A n \in ListedThemselves : Occurrences(returned.nodes, n) = 1
        /\ \A e \in IncompatibleEmbeddings : Occurrences(returned.nodes, e) > 0

\* the raw edges between flat nodes whose lowest common container is c and
\* that lead from its child v, or a node below v, to its child w, or a node
\* below w, in the order of graph.edges
EdgesBetween(c, v, w) ==
    SelectSeq(graph.edges, LAMBDA e :
        /\ e.v \in FlatNames
        /\ e.w \in FlatNames
        /\ CommonContainer(e.v, e.w) = c
        /\ ChildToward(c, e.v) = v
        /\ ChildToward(c, e.w) = w)

\* the Metaedges of the container from v to w, by position
MetaedgesBetween(c, v, w) ==
    {k \in 1..Len(index[c].metagraph.edges) :
        index[c].metagraph.edges[k].v = v /\ index[c].metagraph.edges[k].w = w}

\* C22: all raw edges that join the same ordered pair of children of their
\* lowest common container are in one Metaedge, whose base-edge list holds
\* each of them once in the order of the input edge list, and nothing else;
\* the raw edges of the opposite direction are in another Metaedge, and a
\* pair no raw edge joins has no Metaedge.
C22_EdgesAggregatedPerPair ==
    Built =>
        \A c \in Containers :
            \A v, w \in Range(index[c].metagraph.nodes) :
                IF EdgesBetween(c, v, w) = <<>>
                THEN MetaedgesBetween(c, v, w) = {}
                ELSE /\ Cardinality(MetaedgesBetween(c, v, w)) = 1
                     /\ \A k \in MetaedgesBetween(c, v, w) :
                            index[c].metagraph.edges[k].baseEdgeList = EdgesBetween(c, v, w)

\* a hierarchy where two raw edges with different endpoints join the same
\* ordered pair of children of a container
C22_Witness ==
    /\ Built
    /\ \E c \in Containers :
        \E v, w \in Range(index[c].metagraph.nodes) :
            /\ Len(EdgesBetween(c, v, w)) = 2
            /\ \/ EdgesBetween(c, v, w)[1].v # EdgesBetween(c, v, w)[2].v
               \/ EdgesBetween(c, v, w)[1].w # EdgesBetween(c, v, w)[2].w

\* the Metaedges of the list that lead from A to B
Between(list, A, B) == {m \in Range(list) : m.v = A /\ m.w = B}

\* the Metaedge summarises a raw edge that is no control dependency
SummarisesRegular(m) ==
    \E i \in 1..Len(m.baseEdgeList) : ~m.baseEdgeList[i].isControlDependency

\* getSuccessors(A) and getPredecessors(B) return the same Metaedges from A to
\* B in their regular lists and in their control lists
SameBetween(A, B) ==
    /\ Between(getSuccessors(index, A).edges.regular, A, B)
           = Between(getPredecessors(index, B).edges.regular, A, B)
    /\ Between(getSuccessors(index, A).edges.control, A, B)
           = Between(getPredecessors(index, B).edges.control, A, B)

\* what getSuccessors(A) returns from A to B is what the metagraph of their
\* container holds from A to B, in the list the raw edges decide
ReturnedAsHeld(c, A, B) ==
    /\ Between(getSuccessors(index, A).edges.regular, A, B)
           = {m \in Between(index[c].metagraph.edges, A, B) : SummarisesRegular(m)}
    /\ Between(getSuccessors(index, A).edges.control, A, B)
           = {m \in Between(index[c].metagraph.edges, A, B) : ~SummarisesRegular(m)}

\* C23: for two direct children A and B of one container, getSuccessors(A)
\* returns a Metaedge from A to B exactly when getPredecessors(B) returns it,
\* and in the same list: the regular list when the Metaedge summarises at
\* least one raw edge that is no control dependency, the control list
\* otherwise; what is returned from A to B is the Metaedge of the container's
\* metagraph.  Stated of the hierarchy as build delivers it and as a call of
\* either query leaves it.
C23_SuccessorsInvertPredecessors ==
    (delivered /\ lastCall.op \in {"none", "getPredecessors", "getSuccessors"}) =>
        \A c \in Containers :
            \A A, B \in Range(index[c].metagraph.nodes) :
                SameBetween(A, B) /\ ReturnedAsHeld(c, A, B)

\* getSuccessors was called for a child of a container that has a Metaedge of
\* control dependencies only to one sibling and a Metaedge with a raw edge that
\* is no control dependency from or to another node
C23_Witness ==
    /\ delivered
    /\ lastCall = Called("getSuccessors", "returns")
    /\ asked \in DOMAIN index
    /\ index[asked].parentNode # NoName
    /\ \E m \in Range(index[index[asked].parentNode].metagraph.edges) :
        m.v = asked /\ ~SummarisesRegular(m)
    /\ \E m \in Range(index[index[asked].parentNode].metagraph.edges) :
        (m.v = asked \/ m.w = asked) /\ SummarisesRegular(m)

\* the step is a call of one of the queries with the name of a node of the
\* index that is no container
NonContainerCall(ops) ==
    /\ queries' = queries + 1
    /\ lastCall'.op \in ops
    /\ asked' \in DOMAIN index \ Containers

\* C24: getTopologicalOrdering and getBridgegraph, called with the name of a
\* node of the index that is no container (a leaf op or an embedding), return
\* null, raise no error and create no cache entry: the hierarchy, its
\* bridgegraphs and its orderings are as before the call.
C24_NonContainerGetsNull ==
    [][NonContainerCall({"getTopologicalOrdering", "getBridgegraph"}) =>
           (lastCall'.outcome = "null" /\ HierarchyKept)]_vars

\* getBridgegraph was called with the name of an embedding after a call that
\* made a bridgegraph, and returned null
C24_Witness ==
    /\ lastCall = Called("getBridgegraph", "null")
    /\ asked \in Embeddings
    /\ created # <<>>

\* the Metanodes that are children of the root and named with the library
\* prefix
FunctionNodes ==
    {n \in DOMAIN index :
        /\ index[n].type = "META"
        /\ index[n].parentNode = ROOT_NAME
        /\ StartsWith(n, FUNCTION_LIBRARY_NODE_PREFIX)}

\* the name of a function node without the library prefix
FunctionKey(n) == SubSeq(n, Len(FUNCTION_LIBRARY_NODE_PREFIX) + 1, Len(n))

\* the flat nodes whose op is the name
CallSites(f) == {graph.nodes[i].name : i \in {j \in 1..Len(graph.nodes) : graph.nodes[j].op = f}}

\* C25: once tree construction has run, the library-function table has an
\* entry for every Metanode that is a child of the root and named with the
\* library prefix, under the name without the prefix, and for nothing else;
\* the entry's node is that Metanode and its usages are the flat nodes whose
\* op is the key, each once, whether they come before or after the function in
\* graph.nodes.
C25_LibraryFunctionsRegistered ==
    phases # <<>> =>
        /\ DOMAIN libraryFunctions = {FunctionKey(n) : n \in FunctionNodes}
        /\ \A n \in FunctionNodes :
            /\ libraryFunctions[FunctionKey(n)].node = n
            /\ index[n].associatedFunction = FunctionKey(n)
            /\ Range(libraryFunctions[FunctionKey(n)].usages) = CallSites(FunctionKey(n))
            /\ Len(libraryFunctions[FunctionKey(n)].usages)
                   = Cardinality(CallSites(FunctionKey(n)))

\* a function called by a node that graph.nodes holds before the body of the
\* function and by a node within a Metanode of the body that is named with the
\* prefix and is no child of the root
C25_Witness ==
    /\ phases # <<>>
    /\ \E n \in FunctionNodes :
        /\ Len(libraryFunctions[FunctionKey(n)].usages) = 2
        /\ libraryFunctions[FunctionKey(n)].usages[1] = graph.nodes[1].name
        /\ \E m \in Containers \ FunctionNodes :
            /\ StartsWith(m, FUNCTION_LIBRARY_NODE_PREFIX)
            /\ index[libraryFunctions[FunctionKey(n)].usages[2]].parentNode = m

\* the state series detection leaves, the generalized policy in use
AnywhereDetected ==
    /\ pc = "Adding edges"
    /\ params.seriesNodeMinSize > 0
    /\ params.useGeneralizedSeriesPatterns

\* the cluster of a flat node: the flat nodes of its op that the tree phase
\* puts into the same Metanode, in the order of graph.nodes
ClusterOf(n) ==
    SelectSeq([i \in 1..Len(graph.nodes) |-> graph.nodes[i].name],
              LAMBDA m : ParentOf(m) = ParentOf(n) /\ index[m].op = index[n].op)

\* the series name of the k-th candidate of a member
CandidateKey(n, k) ==
    getSeriesNodeName(AnywhereCandidates(n)[k].prefix, AnywhereCandidates(n)[k].suffix,
                      ParentOf(n))

\* how many candidates of the members of the cluster of n have the series name
CandidateEntries(n, key) ==
    Cardinality({e \in UNION {{<<m, k>> : k \in 1..Len(AnywhereCandidates(m))} :
                                 m \in Range(ClusterOf(n))} :
                    CandidateKey(e[1], e[2]) = key})

\* the run of digits of the member whose series name has the most candidates in
\* the cluster, the first such run of the name
BestRun(n) ==
    CHOOSE k \in 1..Len(AnywhereCandidates(n)) :
        /\ \A j \in 1..Len(AnywhereCandidates(n)) :
            CandidateEntries(n, CandidateKey(n, j)) <= CandidateEntries(n, CandidateKey(n, k))
        /\ \A j \in 1..(k - 1) :
            CandidateEntries(n, CandidateKey(n, j)) < CandidateEntries(n, CandidateKey(n, k))

\* candidatesDict of the cluster of n
CandidatesOfCluster(n) ==
    AnywhereCandidatesDict(<<>>,
        AnywhereDicts([forward |-> <<>>, reverse |-> <<>>], ClusterOf(n)).forward,
        AnywhereDicts([forward |-> <<>>, reverse |-> <<>>], ClusterOf(n)).reverse)

\* where candidatesDict of its cluster holds the member: <<entry, position>>
AssignedAt(n) ==
    {a \in (1..Len(CandidatesOfCluster(n))) \X (1..Len(ClusterOf(n))) :
        /\ a[2] <= Len(CandidatesOfCluster(n)[a[1]].value)
        /\ CandidatesOfCluster(n)[a[1]].value[a[2]].name = n}

\* owningSeries of the member, when it has one, is a series of its best run
OwnedThroughBestRun(n) ==
    index[n].owningSeries # NoName =>
        \E lo, hi \in 0..9 :
            /\ lo <= AnywhereCandidates(n)[BestRun(n)].id
            /\ AnywhereCandidates(n)[BestRun(n)].id <= hi
            /\ index[n].owningSeries
                   = getSeriesNodeNameIds(AnywhereCandidates(n)[BestRun(n)].prefix,
                                          AnywhereCandidates(n)[BestRun(n)].suffix,
                                          ParentOf(n), lo, hi)

\* C26: under the generalized policy, every member of a cluster of two or more
\* flat nodes that has a run of digits in its name is a candidate of exactly
\* one series name: that of the run of digits, among its own, whose series
\* name has the most candidates in the cluster, and of the first such run in
\* the name when several have the most; the series the member is owned by, if
\* any, is one of that run.
C26_MemberGoesToLargestRun ==
    AnywhereDetected =>
        \A n \in FlatNames :
            (Len(ClusterOf(n)) > 1 /\ DigitRuns(LeafOf(n), 1) # <<>>) =>
                /\ Cardinality(AssignedAt(n)) = 1
                /\ \A a \in AssignedAt(n) :
                    /\ CandidatesOfCluster(n)[a[1]].key = CandidateKey(n, BestRun(n))
                    /\ CandidatesOfCluster(n)[a[1]].value[a[2]].clusterId
                           = AnywhereCandidates(n)[BestRun(n)].id
                /\ OwnedThroughBestRun(n)

\* series detection has run on three siblings: one whose two runs of digits
\* have as many candidates each is owned by a series, and one whose second run
\* has more candidates than its first
C26_Witness ==
    /\ AnywhereDetected
    /\ \E n, m \in FlatNames :
        /\ Len(AnywhereCandidates(n)) = 2
        /\ CandidateEntries(n, CandidateKey(n, 1)) = CandidateEntries(n, CandidateKey(n, 2))
        /\ index[n].owningSeries # NoName
        /\ Len(AnywhereCandidates(m)) = 2
        /\ BestRun(m) = 2

\* the container the tree phase puts a flat node into
PlacedIn(n) == IF ParentOf(n) = NoName THEN ROOT_NAME ELSE ParentOf(n)

\* the member of the series node is a leaf op of the flat graph that the tree
\* phase put into the container of the series node
MemberOfContainer(s, m) ==
    /\ m \in FlatNames
    /\ index[m].type = "OP"
    /\ ~index[m].isGroupNode
    /\ index[m].parentNode = s
    /\ PlacedIn(m) = index[s].parentNode

\* C27: under either detection policy, every member of every series node is a
\* leaf OpNode that was a direct child of the container in which the series
\* was detected, all members of one series node have the same op, and no
\* Metanode is a member of a series node.
C27_SeriesHoldSiblingOps ==
    \A s \in SeriesNodes :
        /\ index[s].metagraph.nodes # <<>>
        /\ \A m \in Range(index[s].metagraph.nodes) : MemberOfContainer(s, m)
        /\ \A m, n \in Range(index[s].metagraph.nodes) : index[m].op = index[n].op
        /\ Range(index[s].metagraph.nodes) \cap Metanodes = {}

\* a series node of two members or more next to a sibling of another op whose
\* name has the prefix of the series
C27_Witness ==
    \E s \in SeriesNodes :
        /\ \E n \in FlatNames \ Range(index[s].metagraph.nodes) :
            /\ PlacedIn(n) = index[s].parentNode
            /\ index[n].op # index[index[s].metagraph.nodes[1]].op
            /\ PartsOf(n).prefix = index[s].prefix
        /\ Len(index[s].metagraph.nodes) >= 2

\* the Metaedge joins two different nodes of the metagraph of the container,
\* both with the container as parent
JoinsChildren(c, e) ==
    /\ e.v # e.w
    /\ Occurrences(index[c].metagraph.nodes, e.v) = 1
    /\ Occurrences(index[c].metagraph.nodes, e.w) = 1
    /\ index[e.v].parentNode = c
    /\ index[e.w].parentNode = c

\* the raw edge is in a Metaedge of the container from v to w, and in no other
\* Metaedge
AttachedBetween(e, c, v, w) ==
    /\ Holders(e) # {}
    /\ \A h \in Holders(e) :
        /\ h[1] = c
        /\ index[c].metagraph.edges[h[2]].v = v
        /\ index[c].metagraph.edges[h[2]].w = w

\* the node that stands for the flat node among the children of the container
\* of its series or its own: the series node of a member, the node itself
\* otherwise
StandsFor(n) == IF SeriesHolding(n) = {} THEN n ELSE CHOOSE s \in SeriesHolding(n) : TRUE

\* a raw edge between two members of one series is attached in the metagraph
\* of the series node, between the members; a raw edge between a member of a
\* series and a sibling that is no member of it is attached in the metagraph
\* of the container of the series node, the series node standing for the member
AttachedBySeries(e) ==
    IF SeriesHolding(e.v) \cap SeriesHolding(e.w) # {}
    THEN \A s \in SeriesHolding(e.v) \cap SeriesHolding(e.w) : AttachedBetween(e, s, e.v, e.w)
    ELSE (PlacedIn(e.v) = PlacedIn(e.w) /\ SeriesHolding(e.v) \cup SeriesHolding(e.w) # {}) =>
             AttachedBetween(e, PlacedIn(e.v), StandsFor(e.v), StandsFor(e.w))

\* C28: after build, every Metaedge of the metagraph of any container joins two
\* different nodes that are both nodes of that metagraph and have that
\* container as parent; a raw edge between two members of one accepted series
\* is attached in the metagraph of the series node; a raw edge between a member
\* of a series and a sibling that is no member is attached in the metagraph of
\* the enclosing container, with the series node as one endpoint.
C28_MetaedgesJoinChildren ==
    Built =>
        /\ \A c \in Containers :
            \A k \in 1..Len(index[c].metagraph.edges) :
                JoinsChildren(c, index[c].metagraph.edges[k])
        /\ \A i \in Resolvable : AttachedBySeries(graph.edges[i])

\* a hierarchy with a raw edge between the two members of a series and a raw
\* edge between a member and a sibling leaf that is no member
C28_Witness ==
    /\ Built
    /\ \E i, j \in Resolvable :
        /\ SeriesHolding(graph.edges[i].v) \cap SeriesHolding(graph.edges[i].w) # {}
        /\ SeriesHolding(graph.edges[j].v) = {}
        /\ SeriesHolding(graph.edges[j].w) # {}
        /\ PlacedIn(graph.edges[j].v) = PlacedIn(graph.edges[j].w)

\* the list getIncompatibleOps returned holds the leaf or the series node that
\* owns it
Represented(n) ==
    \/ Occurrences(returned.nodes, n) > 0
    \/ /\ index[n].owningSeries # NoName
       /\ Occurrences(returned.nodes, index[n].owningSeries) > 0

\* C29: for a hierarchy build delivered and any hierarchyParams passed to
\* getIncompatibleOps (those of build, others with another series map, or
\* none), every incompatible leaf OpNode under the root is represented in the
\* list returned, by itself or by the series node that owns it.
C29_IncompatibleLeavesRepresented ==
    IncompatibleOpsReturned => \A n \in IncompatibleLeaves : Represented(n)

====
